---- MODULE Spec2Model ----
(***************************************************************************)
(* A model of the vendor-intelligence service.                             *)
(*                                                                         *)
(*   Part I  (specifications Spec, and SpecLive with fair scheduling):     *)
(*     src/database.py, the warehouse lifecycle (is_warehouse_running      *)
(*     with its lru_cache, start_databricks_warehouse,                     *)
(*     stop_databricks_warehouse, the two cron jobs) and                   *)
(*     SingletonSQLDatabase (double-checked locking), with the requests    *)
(*     (handle_query) and keep_connection_alive of src/main.py as the      *)
(*     callers.                                                            *)
(*                                                                         *)
(*   Part II (specifications SpecFetch, SpecFold): fetch_top_vendors of    *)
(*     src/main.py: name normalisation, id resolution, the aggregation     *)
(*     query, the fold into per-port/per-vendor aggregates and the top-2   *)
(*     ranking.                                                            *)
(***************************************************************************)
EXTENDS Integers, Sequences, FiniteSets, TLC

\* ------------------------------------------------------------------ bounds
\* Number of worker threads (request threads and scheduler pool threads).
NThreads == 2
\* Number of operations the workers start, all together.
MaxCalls == 3

Workers == 1..NThreads

VARIABLES
    \* ---- Part I: src/database.py ----
    instance,     \* SingletonSQLDatabase._instance: NoHandle or a handle id
    lock,         \* SingletonSQLDatabase._lock: NoThread or the holder
    cache,        \* lru_cache of is_warehouse_running: "empty", "true", "false"
    wh,           \* the remote warehouse: "STOPPED", "STARTING", "RUNNING"
    pc,           \* pc[w]: where worker w stands in its operation
    op,           \* op[w]: the operation worker w runs
    calls,        \* operations started so far
    polled,       \* polled[w]: value computed by w's in-flight status poll
    ret,          \* ret[w]: what w's last get_instance() call gave
    nConstruct,   \* calls of SQLDatabase.from_databricks so far
    nFailed,      \* of these, the calls that raised
    stale,        \* handles on which a probe (SELECT 1) has failed
    callStale,    \* callStale[w]: stale, as it was when w's get_instance() began
    broken,       \* handles on which a db.run of fetch_top_vendors has raised
    callBroken,   \* callBroken[w]: broken, as it was when w's get_instance() began
    log,          \* log[w]: what w's operation in progress has done, in order
    pollStale,    \* pollStale[w]: w's in-flight poll predates a start/stop
    cacheStale    \* the cached value predates a start/stop

histVars == <<broken, callBroken, log, pollStale, cacheStale>>

connVars == <<instance, lock, cache, wh, pc, op, calls, polled, ret,
              nConstruct, nFailed, stale, callStale, histVars>>

VARIABLES
    \* ---- Part II: fetch_top_vendors, src/main.py ----
    fpc,          \* where the call stands: "off", "begin", "items", "ports",
                  \*   "query", "fold", "rank", "done"
    item_names,   \* the arguments, each absent (None) or a list
    port_names,
    item_ids,
    port_ids,
    item_results, \* the decoded answer of the item lookup
    port_results, \* the decoded answer of the port lookup
    table,        \* the grouped rows of the view, as the database holds them
    queries,      \* the db.run calls made so far, in order
    result_dicts, \* the decoded rows of the aggregation query
    nFolded,      \* rows of result_dicts the fold has processed
    item_set,     \* line 125's set of item names, in its iteration order
    port_vendor_data, \* the aggregates, in insertion order
    final_result, \* the list the call returns
    outcome,      \* "running", "returned" or "raised" (to the caller)
    logged,       \* the exception the handler of line 172 logged, or "none"
    malformed     \* some db.run answer was not a well-formed list of rows

VARIABLES
    \* ---- Part II: handle_query, src/main.py ----
    userinput,    \* the request body (ModelInput)
    hq,           \* where the request stands: "off", "route", "vendor",
                  \*   "agent", "responded"
    response_data \* what the client gets: the HTTP status and the body

reqVars == <<userinput, hq, response_data>>

fetchCall == <<fpc, item_names, port_names, item_ids, port_ids, item_results,
               port_results, table, queries, result_dicts, nFolded, item_set,
               port_vendor_data, final_result, outcome, logged, malformed>>

fetchVars == <<fetchCall, reqVars>>

vars == <<connVars, fetchVars>>

\* `_instance = None`
NoHandle == 0
\* the lock is free
NoThread == 0
\* ret[w] after get_instance() raised RuntimeError
Raised == -1

Ops == {"handle_query", "keep_connection_alive", "start_job", "stop_job"}
QueryOps == {"handle_query", "keep_connection_alive"}

\* What a worker's log can hold: the outcome of each remote call it has made
\* and each lock or cache operation it has done, in program order.
Events == {"acquire", "hit_true", "hit_false",
           "poll_true", "poll_false", "poll_fail",
           "start_ok", "start_fail", "stop_ok", "stop_fail", "clear",
           "construct_ok", "construct_fail",
           "probe_ok", "probe_fail", "query_ok", "query_fail"}

\* ------------------------------------------------------------ Part I
TypeOK ==
    /\ instance \in 0..MaxCalls
    /\ lock \in {NoThread} \cup Workers
    /\ cache \in {"empty", "true", "false"}
    /\ wh \in {"STOPPED", "STARTING", "RUNNING"}
    /\ op \in [Workers -> Ops]
    /\ calls \in 0..MaxCalls
    /\ polled \in [Workers -> BOOLEAN]
    /\ ret \in [Workers -> {Raised} \cup 0..MaxCalls]
    /\ \A w \in Workers : \A i \in DOMAIN log[w] : log[w][i] \in Events

\* The process starts with no handle, a free lock, an empty cache; the
\* warehouse is in whatever state the outside world left it.
ConnInit ==
    /\ instance = NoHandle
    /\ lock = NoThread
    /\ cache = "empty"
    /\ wh \in {"STOPPED", "RUNNING"}
    /\ pc = [w \in Workers |-> "idle"]
    /\ op = [w \in Workers |-> "handle_query"]
    /\ calls = 0
    /\ polled = [w \in Workers |-> FALSE]
    /\ ret = [w \in Workers |-> NoHandle]
    /\ nConstruct = 0
    /\ nFailed = 0
    /\ stale = {}
    /\ callStale = [w \in Workers |-> {}]
    /\ broken = {}
    /\ callBroken = [w \in Workers |-> {}]
    /\ log = [w \in Workers |-> <<>>]
    /\ pollStale = [w \in Workers |-> FALSE]
    /\ cacheStale = FALSE

\* Worker w's log after a step that takes w to `to`: one more event, or
\* nothing left once the operation is over.
Logged(w, e, to) ==
    [log EXCEPT ![w] = IF to = "idle" THEN <<>> ELSE Append(@, e)]

\* Where start_databricks_warehouse returns to: the cron job ends, the
\* singleton's __new__ goes on to _initialize_instance.
AfterStart(w) == IF op[w] = "start_job" THEN "idle" ELSE "init"

\* A worker starts an operation: a request (get_db_connection, then the
\* body of handle_query), the keep_connection_alive job, or one of the two
\* cron jobs.
Begin(w) ==
    /\ pc[w] = "idle"
    /\ calls < MaxCalls
    /\ \E o \in Ops :
        /\ op' = [op EXCEPT ![w] = o]
        /\ pc' = [pc EXCEPT ![w] =
                    CASE o \in QueryOps -> "check1"
                      [] o = "start_job" -> "sw_cache"
                      [] OTHER -> "stop_post"]
        /\ ret' = [ret EXCEPT ![w] = IF o \in QueryOps THEN NoHandle ELSE @]
        /\ callStale' = [callStale EXCEPT ![w] = IF o \in QueryOps THEN stale ELSE @]
        /\ callBroken' = [callBroken EXCEPT ![w] = IF o \in QueryOps THEN broken ELSE @]
    /\ calls' = calls + 1
    /\ log' = [log EXCEPT ![w] = <<>>]
    /\ UNCHANGED <<fetchVars, instance, lock, cache, wh, polled, nConstruct,
                   nFailed, stale, broken, pollStale, cacheStale>>

\* The mutant of new_check1: no unlocked test, every call takes the lock.
new_check1_AlwaysLocks(w) ==
    /\ pc[w] = "check1"
    /\ pc' = [pc EXCEPT ![w] = "acquire"]
    /\ UNCHANGED <<fetchVars, instance, lock, cache, wh, op, calls, polled, ret,
                   nConstruct, nFailed, stale, callStale, histVars>>

\* __new__: the first, unlocked test `if not cls._instance`.
new_check1(w) ==
    /\ pc[w] = "check1"
    /\ pc' = [pc EXCEPT ![w] = IF instance # NoHandle THEN "ret" ELSE "acquire"]
    /\ UNCHANGED <<fetchVars, instance, lock, cache, wh, op, calls, polled, ret,
                   nConstruct, nFailed, stale, callStale, histVars>>

\* __new__: `with cls._lock:` blocks until the lock is free.
new_acquire(w) ==
    /\ pc[w] = "acquire"
    /\ lock = NoThread
    /\ lock' = w
    /\ pc' = [pc EXCEPT ![w] = "check2"]
    /\ log' = Logged(w, "acquire", "check2")
    /\ UNCHANGED <<fetchVars, instance, cache, wh, op, calls, polled, ret,
                   nConstruct, nFailed, stale, callStale, broken, callBroken,
                   pollStale, cacheStale>>

\* The mutant of new_check2: no second test under the lock.
new_check2_NoRecheck(w) ==
    /\ pc[w] = "check2"
    /\ pc' = [pc EXCEPT ![w] = "sw_cache"]
    /\ UNCHANGED <<fetchVars, instance, lock, cache, wh, op, calls, polled, ret,
                   nConstruct, nFailed, stale, callStale, histVars>>

\* The mutant of new_check2: construction without the start call.
new_check2_NoStart(w) ==
    /\ pc[w] = "check2"
    /\ IF instance # NoHandle
         THEN /\ lock' = NoThread
              /\ pc' = [pc EXCEPT ![w] = "ret"]
         ELSE /\ lock' = lock
              /\ pc' = [pc EXCEPT ![w] = "init"]
    /\ UNCHANGED <<fetchVars, instance, cache, wh, op, calls, polled, ret,
                   nConstruct, nFailed, stale, callStale, histVars>>

\* __new__: the second test, under the lock.
new_check2(w) ==
    /\ pc[w] = "check2"
    /\ IF instance # NoHandle
         THEN /\ lock' = NoThread
              /\ pc' = [pc EXCEPT ![w] = "ret"]
         ELSE /\ lock' = lock
              /\ pc' = [pc EXCEPT ![w] = "sw_cache"]
    /\ UNCHANGED <<fetchVars, instance, cache, wh, op, calls, polled, ret,
                   nConstruct, nFailed, stale, callStale, histVars>>

\* The mutant of start_cache_lookup: a cached False is not trusted, the
\* status is polled again.
start_cache_lookup_RepollsFalse(w) ==
    /\ pc[w] = "sw_cache"
    /\ pc' = [pc EXCEPT ![w] =
                IF cache = "true" THEN AfterStart(w) ELSE "sw_poll"]
    /\ log' = IF cache = "true" THEN Logged(w, "hit_true", AfterStart(w)) ELSE log
    /\ UNCHANGED <<fetchVars, instance, lock, cache, wh, op, calls, polled, ret,
                   nConstruct, nFailed, stale, callStale, broken, callBroken,
                   pollStale, cacheStale>>

\* start_databricks_warehouse: `if is_warehouse_running()`, the lru_cache
\* lookup. A hit answers from the cache; a miss runs the function body.
start_cache_lookup(w) ==
    /\ pc[w] = "sw_cache"
    /\ pc' = [pc EXCEPT ![w] =
                CASE cache = "empty" -> "sw_poll"
                  [] cache = "true" -> AfterStart(w)
                  [] OTHER -> "sw_post"]
    /\ log' = CASE cache = "empty" -> log
                [] cache = "true" -> Logged(w, "hit_true", AfterStart(w))
                [] OTHER -> Logged(w, "hit_false", "sw_post")
    /\ UNCHANGED <<fetchVars, instance, lock, cache, wh, op, calls, polled, ret,
                   nConstruct, nFailed, stale, callStale, broken, callBroken,
                   pollStale, cacheStale>>

\* The mutant of is_warehouse_running: a failed GET counts as running.
is_warehouse_running_FailureIsRunning(w) ==
    /\ pc[w] = "sw_poll"
    /\ \E ok \in BOOLEAN :
        /\ polled' = [polled EXCEPT ![w] = ~ok \/ wh = "RUNNING"]
        /\ log' = Logged(w, CASE ~ok -> "poll_fail"
                              [] wh = "RUNNING" -> "poll_true"
                              [] OTHER -> "poll_false", "sw_store")
    /\ pollStale' = [pollStale EXCEPT ![w] = FALSE]
    /\ pc' = [pc EXCEPT ![w] = "sw_store"]
    /\ UNCHANGED <<fetchVars, instance, lock, cache, wh, op, calls, ret,
                   nConstruct, nFailed, stale, callStale, broken, callBroken,
                   cacheStale>>

\* is_warehouse_running, the body: GET the warehouse; 200 gives
\* state == "RUNNING", anything else (non-200, exception) gives False.
is_warehouse_running(w) ==
    /\ pc[w] = "sw_poll"
    /\ \E ok \in BOOLEAN :
        /\ polled' = [polled EXCEPT ![w] = ok /\ wh = "RUNNING"]
        /\ log' = Logged(w, CASE ~ok -> "poll_fail"
                              [] wh = "RUNNING" -> "poll_true"
                              [] OTHER -> "poll_false", "sw_store")
    /\ pollStale' = [pollStale EXCEPT ![w] = FALSE]
    /\ pc' = [pc EXCEPT ![w] = "sw_store"]
    /\ UNCHANGED <<fetchVars, instance, lock, cache, wh, op, calls, ret,
                   nConstruct, nFailed, stale, callStale, broken, callBroken,
                   cacheStale>>

\* The mutant of cache_store: the value computed replaces what is stored.
cache_store_Overwrite(w) ==
    /\ pc[w] = "sw_store"
    /\ cache' = IF polled[w] THEN "true" ELSE "false"
    /\ cacheStale' = pollStale[w]
    /\ pc' = [pc EXCEPT ![w] = IF polled[w] THEN AfterStart(w) ELSE "sw_post"]
    /\ log' = IF polled[w] /\ AfterStart(w) = "idle"
                THEN [log EXCEPT ![w] = <<>>]
                ELSE log
    /\ polled' = [polled EXCEPT ![w] = FALSE]
    /\ pollStale' = [pollStale EXCEPT ![w] = FALSE]
    /\ UNCHANGED <<fetchVars, instance, lock, wh, op, calls, ret,
                   nConstruct, nFailed, stale, callStale, broken, callBroken>>

\* lru_cache stores the computed value unless the key was added during the
\* call; the caller gets the value it computed.
cache_store(w) ==
    /\ pc[w] = "sw_store"
    /\ cache' = IF cache = "empty"
                  THEN (IF polled[w] THEN "true" ELSE "false")
                  ELSE cache
    /\ cacheStale' = IF cache = "empty" THEN pollStale[w] ELSE cacheStale
    /\ pc' = [pc EXCEPT ![w] = IF polled[w] THEN AfterStart(w) ELSE "sw_post"]
    /\ log' = IF polled[w] /\ AfterStart(w) = "idle"
                THEN [log EXCEPT ![w] = <<>>]
                ELSE log
    /\ polled' = [polled EXCEPT ![w] = FALSE]
    /\ pollStale' = [pollStale EXCEPT ![w] = FALSE]
    /\ UNCHANGED <<fetchVars, instance, lock, wh, op, calls, ret,
                   nConstruct, nFailed, stale, callStale, broken, callBroken>>

\* A start or stop request was accepted: what the cache holds and what the
\* polls in flight have computed was observed before it.
Outdated == [v \in Workers |-> pollStale[v] \/ pc[v] = "sw_store"]

\* start_databricks_warehouse: POST .../start. 200 is followed by
\* cache_clear; a non-200 answer or an exception is logged.
start_post(w) ==
    /\ pc[w] = "sw_post"
    /\ \E ok \in BOOLEAN :
        IF ok
          THEN /\ wh' = IF wh = "STOPPED" THEN "STARTING" ELSE wh
               /\ pc' = [pc EXCEPT ![w] = "sw_clear"]
               /\ log' = Logged(w, "start_ok", "sw_clear")
               /\ pollStale' = Outdated
               /\ cacheStale' = (cache # "empty")
          ELSE /\ wh' = wh
               /\ pc' = [pc EXCEPT ![w] = AfterStart(w)]
               /\ log' = Logged(w, "start_fail", AfterStart(w))
               /\ UNCHANGED <<pollStale, cacheStale>>
    /\ UNCHANGED <<fetchVars, instance, lock, cache, op, calls, polled, ret,
                   nConstruct, nFailed, stale, callStale, broken, callBroken>>

\* start_databricks_warehouse: is_warehouse_running.cache_clear().
start_cache_clear(w) ==
    /\ pc[w] = "sw_clear"
    /\ cache' = "empty"
    /\ cacheStale' = FALSE
    /\ pc' = [pc EXCEPT ![w] = AfterStart(w)]
    /\ log' = Logged(w, "clear", AfterStart(w))
    /\ UNCHANGED <<fetchVars, instance, lock, wh, op, calls, polled, ret,
                   nConstruct, nFailed, stale, callStale, broken, callBroken,
                   pollStale>>

\* The mutant of initialize_instance: a construction that raises leaves the
\* lock held.
initialize_instance_KeepsLock(w) ==
    /\ pc[w] = "init"
    /\ nConstruct' = nConstruct + 1
    /\ \E ok \in BOOLEAN :
        IF ok
          THEN /\ instance' = nConstruct + 1
               /\ lock' = NoThread
               /\ nFailed' = nFailed
               /\ ret' = ret
               /\ pc' = [pc EXCEPT ![w] = "ret"]
               /\ log' = Logged(w, "construct_ok", "ret")
          ELSE /\ instance' = instance
               /\ lock' = lock
               /\ nFailed' = nFailed + 1
               /\ ret' = [ret EXCEPT ![w] = Raised]
               /\ pc' = [pc EXCEPT ![w] = "idle"]
               /\ log' = Logged(w, "construct_fail", "idle")
    /\ UNCHANGED <<fetchVars, cache, wh, op, calls, polled, stale, callStale,
                   broken, callBroken, pollStale, cacheStale>>

\* The mutant of initialize_instance: a construction that raises is
\* swallowed and __new__ returns what _instance holds.
initialize_instance_Swallows(w) ==
    /\ pc[w] = "init"
    /\ nConstruct' = nConstruct + 1
    /\ lock' = NoThread
    /\ \E ok \in BOOLEAN :
        IF ok
          THEN /\ instance' = nConstruct + 1
               /\ nFailed' = nFailed
               /\ log' = Logged(w, "construct_ok", "ret")
          ELSE /\ instance' = instance
               /\ nFailed' = nFailed + 1
               /\ log' = Logged(w, "construct_fail", "ret")
    /\ ret' = ret
    /\ pc' = [pc EXCEPT ![w] = "ret"]
    /\ UNCHANGED <<fetchVars, cache, wh, op, calls, polled, stale, callStale,
                   broken, callBroken, pollStale, cacheStale>>

\* _initialize_instance under the lock: SQLDatabase.from_databricks either
\* gives a new handle object, stored in _instance, or raises, wrapped as
\* RuntimeError; the `with` block releases the lock either way.
initialize_instance(w) ==
    /\ pc[w] = "init"
    /\ nConstruct' = nConstruct + 1
    /\ lock' = NoThread
    /\ \E ok \in BOOLEAN :
        IF ok
          THEN /\ instance' = nConstruct + 1
               /\ nFailed' = nFailed
               /\ ret' = ret
               /\ pc' = [pc EXCEPT ![w] = "ret"]
               /\ log' = Logged(w, "construct_ok", "ret")
          ELSE /\ instance' = instance
               /\ nFailed' = nFailed + 1
               /\ ret' = [ret EXCEPT ![w] = Raised]
               /\ pc' = [pc EXCEPT ![w] = "idle"]
               /\ log' = Logged(w, "construct_fail", "idle")
    /\ UNCHANGED <<fetchVars, cache, wh, op, calls, polled, stale, callStale,
                   broken, callBroken, pollStale, cacheStale>>

\* __new__: `return cls._instance`, read after the lock is released.
new_return(w) ==
    /\ pc[w] = "ret"
    /\ ret' = [ret EXCEPT ![w] = instance]
    /\ pc' = [pc EXCEPT ![w] =
                IF op[w] = "keep_connection_alive" THEN "probe" ELSE "fetch"]
    /\ UNCHANGED <<fetchVars, instance, lock, cache, wh, op, calls, polled,
                   nConstruct, nFailed, stale, callStale, histVars>>

\* The mutant of keep_connection_alive: a failed probe goes on to stop the
\* warehouse.
keep_connection_alive_StopsOnFailure(w) ==
    /\ pc[w] = "probe"
    /\ \E ok \in BOOLEAN :
        /\ stale' = IF ok THEN stale ELSE stale \cup {ret[w]}
        /\ log' = Logged(w, IF ok THEN "probe_ok" ELSE "probe_fail",
                         IF ok THEN "idle" ELSE "stop_post")
        /\ pc' = [pc EXCEPT ![w] = IF ok THEN "idle" ELSE "stop_post"]
    /\ UNCHANGED <<fetchVars, instance, lock, cache, wh, op, calls, polled, ret,
                   nConstruct, nFailed, callStale, broken, callBroken,
                   pollStale, cacheStale>>

\* keep_connection_alive: db.run("SELECT 1"); a failure is caught and
\* logged, and nothing else is done about it.
keep_connection_alive(w) ==
    /\ pc[w] = "probe"
    /\ \E ok \in BOOLEAN :
        /\ stale' = IF ok THEN stale ELSE stale \cup {ret[w]}
        /\ log' = Logged(w, IF ok THEN "probe_ok" ELSE "probe_fail", "idle")
    /\ pc' = [pc EXCEPT ![w] = "idle"]
    /\ UNCHANGED <<fetchVars, instance, lock, cache, wh, op, calls, polled, ret,
                   nConstruct, nFailed, callStale, broken, callBroken,
                   pollStale, cacheStale>>

\* The mutant of handle_query: a query that raises clears _instance, so
\* that the next get_instance() builds a new handle.
handle_query_DropsHandle(w) ==
    /\ pc[w] = "fetch"
    /\ \E ok \in BOOLEAN :
        /\ broken' = IF ok THEN broken ELSE broken \cup {ret[w]}
        /\ instance' = IF ok THEN instance ELSE NoHandle
        /\ log' = Logged(w, IF ok THEN "query_ok" ELSE "query_fail", "idle")
    /\ pc' = [pc EXCEPT ![w] = "idle"]
    /\ UNCHANGED <<fetchVars, lock, cache, wh, op, calls, polled, ret,
                   nConstruct, nFailed, stale, callStale, callBroken,
                   pollStale, cacheStale>>

\* The body of handle_query on the handle the request got, the vendor path:
\* fetch_top_vendors(db, ...). A db.run that raises (the transport failing
\* mid-query) is caught by `except Exception`, logged, and answered with
\* []; the handle and _instance are left alone.
handle_query(w) ==
    /\ pc[w] = "fetch"
    /\ \E ok \in BOOLEAN :
        /\ broken' = IF ok THEN broken ELSE broken \cup {ret[w]}
        /\ log' = Logged(w, IF ok THEN "query_ok" ELSE "query_fail", "idle")
    /\ pc' = [pc EXCEPT ![w] = "idle"]
    /\ UNCHANGED <<fetchVars, instance, lock, cache, wh, op, calls, polled, ret,
                   nConstruct, nFailed, stale, callStale, callBroken,
                   pollStale, cacheStale>>

\* stop_databricks_warehouse: POST .../stop; 200 is followed by cache_clear.
stop_post(w) ==
    /\ pc[w] = "stop_post"
    /\ \E ok \in BOOLEAN :
        IF ok
          THEN /\ wh' = "STOPPED"
               /\ pc' = [pc EXCEPT ![w] = "stop_clear"]
               /\ log' = Logged(w, "stop_ok", "stop_clear")
               /\ pollStale' = Outdated
               /\ cacheStale' = (cache # "empty")
          ELSE /\ wh' = wh
               /\ pc' = [pc EXCEPT ![w] = "idle"]
               /\ log' = Logged(w, "stop_fail", "idle")
               /\ UNCHANGED <<pollStale, cacheStale>>
    /\ UNCHANGED <<fetchVars, instance, lock, cache, op, calls, polled, ret,
                   nConstruct, nFailed, stale, callStale, broken, callBroken>>

\* stop_databricks_warehouse: is_warehouse_running.cache_clear().
stop_cache_clear(w) ==
    /\ pc[w] = "stop_clear"
    /\ cache' = "empty"
    /\ cacheStale' = FALSE
    /\ pc' = [pc EXCEPT ![w] = "idle"]
    /\ log' = Logged(w, "clear", "idle")
    /\ UNCHANGED <<fetchVars, instance, lock, wh, op, calls, polled, ret,
                   nConstruct, nFailed, stale, callStale, broken, callBroken,
                   pollStale>>

\* The warehouse, once started, becomes ready on its own.
WarehouseReady ==
    /\ wh = "STARTING"
    /\ wh' = "RUNNING"
    /\ UNCHANGED <<fetchVars, instance, lock, cache, pc, op, calls, polled, ret,
                   nConstruct, nFailed, stale, callStale, histVars>>

ConnNext ==
    \/ \E w \in Workers : Begin(w)
    \/ \E w \in Workers : new_check1(w)
    \/ \E w \in Workers : new_acquire(w)
    \/ \E w \in Workers : new_check2(w)
    \/ \E w \in Workers : start_cache_lookup(w)
    \/ \E w \in Workers : is_warehouse_running(w)
    \/ \E w \in Workers : cache_store(w)
    \/ \E w \in Workers : start_post(w)
    \/ \E w \in Workers : start_cache_clear(w)
    \/ \E w \in Workers : initialize_instance(w)
    \/ \E w \in Workers : new_return(w)
    \/ \E w \in Workers : keep_connection_alive(w)
    \/ \E w \in Workers : handle_query(w)
    \/ \E w \in Workers : stop_post(w)
    \/ \E w \in Workers : stop_cache_clear(w)
    \/ WarehouseReady

\* ----------------------------------------------------------- Part II
\* Names are sequences of characters, so that strip() and lower() are
\* computed, not assumed.
Space == " "

\* str.lower() on one character.
LowerChar(c) == CASE c = "B" -> "b" [] c = "N" -> "n" [] c = "R" -> "r" [] OTHER -> c

\* str.lower()
Lower(s) == [i \in DOMAIN s |-> LowerChar(s[i])]

RECURSIVE LStrip(_)
LStrip(s) == IF s # <<>> /\ Head(s) = Space THEN LStrip(Tail(s)) ELSE s

RECURSIVE RStrip(_)
RStrip(s) ==
    IF s # <<>> /\ s[Len(s)] = Space THEN RStrip(SubSeq(s, 1, Len(s) - 1)) ELSE s

\* The mutant of Strip: only the left end is trimmed.
Strip_LeftOnly(s) == LStrip(s)

\* str.strip(), and SQL's LTRIM(RTRIM(.)): the same over this alphabet.
Strip(s) == LStrip(RStrip(s))

\* `[name.strip() for name in names]`
StripAll(names) == [i \in DOMAIN names |-> Strip(names[i])]

\* The mutant of LowerAll: the names are left in the case they came in.
LowerAll_AsGiven(names) == names

\* `[name.lower() for name in names]`
LowerAll(names) == [i \in DOMAIN names |-> Lower(names[i])]

\* An optional list argument: None, or a list.
Absent == [given |-> FALSE, val |-> <<>>]
Given(l) == [given |-> TRUE, val |-> l]

\* The mutant of Truthy: only None is false.
Truthy_NotNone(x) == x.given

\* Python truthiness of an optional list: None and [] are false.
Truthy(x) == x.given /\ x.val # <<>>

\* All sequences over S of length at most n.
SeqsUpTo(S, n) == UNION {[1..k -> S] : k \in 0..n}

Min(a, b) == IF a <= b THEN a ELSE b

\* The elements of a sequence.
Range(seq) == {seq[i] : i \in DOMAIN seq}

\* The orders in which a set may be iterated.
Orders(S) == {o \in [1..Cardinality(S) -> S] : Range(o) = S}

\* `"VendorID": None`
NoCode == 0
\* `"VendorName": None`
NoName == "<None>"

\* ---- what the caller passes
\* Longest id list a caller passes.
MaxIds == 2
\* Longest answer of the item lookup.
MaxLookupRows == 2

ItemIdPool == {1, 2}
ItemNameInputs ==
    { Absent, Given(<<>>),
      Given(<< <<" ", "b">> >>),
      Given(<< <<"b">>, <<"B", " ">> >>),
      Given(<< <<"n">> >>),
      Given(<< <<" ">> >>) }
PortNameInputs == { Absent, Given(<<>>), Given(<< <<"R", " ">> >>) }
ItemIdInputs == {Absent} \cup {Given(l) : l \in SeqsUpTo(ItemIdPool, MaxIds)}
PortIdInputs == { Absent, Given(<<>>), Given(<<7>>) }

\* ---- what db.run may answer
\* A lookup answers with an exception, with a string literal_eval rejects,
\* with a literal that is no list, or with a list of rows (given natively
\* or as a string literal_eval accepts).
ItemLookupPool ==
    { <<1, <<"b", " ">> >>, <<2, <<" ", "n">> >>, <<1, <<"n">> >>, <<1>> }
ItemLookupAnswers ==
    { [kind |-> k, rows |-> <<>>] : k \in {"raise", "unparsable", "notlist"} }
    \cup { [kind |-> "rows", rows |-> l] : l \in SeqsUpTo(ItemLookupPool, MaxLookupRows) }
PortLookupAnswers ==
    { [kind |-> k, rows |-> <<>>] : k \in {"raise", "unparsable", "notlist"} }
    \cup { [kind |-> "rows", rows |-> l] :
             l \in { <<>>, << <<7, <<"r", " ">> >> >>, << <<7>> >> } }

\* How the aggregation query is answered: its rows, an exception, a string
\* literal_eval rejects, a literal that cannot be iterated, or rows with
\* columns missing (1 or 4 left) or with a column too many.
AggModes == {"ok", "raise", "unparsable", "notlist", "cut1", "cut4", "long"}

\* ---- the handler and the return statement
\* The mutant of Except: the handler lets the exception through.
Except_Reraise(e) ==
    /\ logged' = e
    /\ final_result' = final_result
    /\ outcome' = "raised"
    /\ fpc' = "done"

\* `except Exception as e: logging.error(...); return []`
Except(e) ==
    /\ logged' = e
    /\ final_result' = <<>>
    /\ outcome' = "returned"
    /\ fpc' = "done"

\* `return <list>`
Return(l) ==
    /\ logged' = logged
    /\ final_result' = l
    /\ outcome' = "returned"
    /\ fpc' = "done"

\* Going on to the next statement.
Goto(label) ==
    /\ logged' = logged
    /\ final_result' = final_result
    /\ outcome' = outcome
    /\ fpc' = label

\* ---- lines 53-57: trim the names passed
fetch_begin ==
    /\ fpc = "begin"
    /\ item_names' = IF Truthy(item_names)
                       THEN Given(StripAll(item_names.val)) ELSE item_names
    /\ port_names' = IF Truthy(port_names)
                       THEN Given(StripAll(port_names.val)) ELSE port_names
    /\ Goto("items")
    /\ UNCHANGED <<connVars, reqVars, item_ids, port_ids, item_results, port_results,
                   table, queries, result_dicts, nFolded, item_set,
                   port_vendor_data, malformed>>

\* ---- lines 59-95: id resolution
\* `all(isinstance(row, tuple) and len(row) == 2 for row in rows)`
WellFormed(rows) == \A i \in DOMAIN rows : Len(rows[i]) = 2

\* `{row[0]: row[1].strip() for row in rows}`: a later row replaces an
\* earlier one with the same id.
RECURSIVE Mapping(_)
Mapping(rows) ==
    IF rows = <<>> THEN <<>>
    ELSE LET last == rows[Len(rows)]
         IN  (last[1] :> Strip(last[2])) @@ Mapping(SubSeq(rows, 1, Len(rows) - 1))

\* The mutant of Resolved: an id without a lookup row is not skipped but
\* resolved to the empty name.
Resolved_KeepUnmatched(ids, rows) ==
    LET m == Mapping(rows)
    IN  [i \in DOMAIN ids |-> IF ids[i] \in DOMAIN m THEN m[ids[i]] ELSE <<>>]

\* `[mapping[id] for id in ids if id in mapping]`
Resolved(ids, rows) ==
    LET m == Mapping(rows)
        Has(id) == id \in DOMAIN m
        hit == SelectSeq(ids, Has)
    IN  [i \in DOMAIN hit |-> m[hit[i]]]

\* The decoded answer: a string literal_eval rejects becomes [].
Decoded(ans) == IF ans.kind = "rows" THEN ans.rows ELSE <<>>

\* The answer is not what a successful query gives.
IsMalformed(ans, arity) ==
    \/ ans.kind \in {"unparsable", "notlist"}
    \/ ans.kind = "rows" /\ \E i \in DOMAIN ans.rows : Len(ans.rows[i]) # arity

Query(kind, ids, items, ports) ==
    [kind |-> kind, ids |-> ids, items |-> items, ports |-> ports]

\* The mutant of resolve_items: names passed directly are kept, the names
\* resolved from the ids are used only when no names were passed.
resolve_items_KeepsNames ==
    /\ fpc = "items"
    /\ IF ~Truthy(item_ids)
         THEN /\ Goto("ports")
              /\ UNCHANGED <<item_names, item_results, queries, malformed>>
         ELSE \E ans \in ItemLookupAnswers :
                /\ queries' = Append(queries, Query("item_lookup", item_ids.val, <<>>, <<>>))
                /\ malformed' = (malformed \/ IsMalformed(ans, 2))
                /\ CASE ans.kind = "raise" ->
                          /\ Except("db.run")
                          /\ UNCHANGED <<item_names, item_results>>
                     [] ans.kind = "notlist" \/ ~WellFormed(Decoded(ans)) ->
                          /\ Return(<<>>)
                          /\ item_results' = Decoded(ans)
                          /\ UNCHANGED item_names
                     [] OTHER ->
                          /\ item_results' = Decoded(ans)
                          /\ item_names' = IF Truthy(item_names)
                                             THEN item_names
                                             ELSE Given(Resolved(item_ids.val, Decoded(ans)))
                          /\ Goto("ports")
    /\ UNCHANGED <<connVars, reqVars, port_names, item_ids, port_ids, port_results,
                   table, result_dicts, nFolded, item_set, port_vendor_data>>

\* lines 59-76
resolve_items ==
    /\ fpc = "items"
    /\ IF ~Truthy(item_ids)
         THEN /\ Goto("ports")
              /\ UNCHANGED <<item_names, item_results, queries, malformed>>
         ELSE \E ans \in ItemLookupAnswers :
                /\ queries' = Append(queries, Query("item_lookup", item_ids.val, <<>>, <<>>))
                /\ malformed' = (malformed \/ IsMalformed(ans, 2))
                /\ CASE ans.kind = "raise" ->
                          /\ Except("db.run")
                          /\ UNCHANGED <<item_names, item_results>>
                     [] ans.kind = "notlist" \/ ~WellFormed(Decoded(ans)) ->
                          /\ Return(<<>>)
                          /\ item_results' = Decoded(ans)
                          /\ UNCHANGED item_names
                     [] OTHER ->
                          /\ item_results' = Decoded(ans)
                          /\ item_names' = Given(Resolved(item_ids.val, Decoded(ans)))
                          /\ Goto("ports")
    /\ UNCHANGED <<connVars, reqVars, port_names, item_ids, port_ids, port_results,
                   table, result_dicts, nFolded, item_set, port_vendor_data>>

\* lines 77-95
resolve_ports ==
    /\ fpc = "ports"
    /\ IF ~Truthy(port_ids)
         THEN /\ Goto("query")
              /\ UNCHANGED <<port_names, port_results, queries, malformed>>
         ELSE \E ans \in PortLookupAnswers :
                /\ queries' = Append(queries, Query("port_lookup", port_ids.val, <<>>, <<>>))
                /\ malformed' = (malformed \/ IsMalformed(ans, 2))
                /\ CASE ans.kind = "raise" ->
                          /\ Except("db.run")
                          /\ UNCHANGED <<port_names, port_results>>
                     [] ans.kind = "notlist" \/ ~WellFormed(Decoded(ans)) ->
                          /\ Return(<<>>)
                          /\ port_results' = Decoded(ans)
                          /\ UNCHANGED port_names
                     [] OTHER ->
                          /\ port_results' = Decoded(ans)
                          /\ port_names' = Given(Resolved(port_ids.val, Decoded(ans)))
                          /\ Goto("query")
    /\ UNCHANGED <<connVars, reqVars, item_names, item_ids, port_ids, item_results,
                   table, result_dicts, nFolded, item_set, port_vendor_data>>

\* ---- lines 96-133: the aggregation query
\* The rows the SQL of lines 109-115 selects from the grouped rows of the
\* view: those whose lower-cased, trimmed item and port are among the names,
\* with port and item trimmed (and not lower-cased) in the answer.
AggRows(tbl, items, ports) ==
    LET Match(r) == /\ Lower(Strip(r[2])) \in Range(items)
                    /\ Lower(Strip(r[1])) \in Range(ports)
        hit == SelectSeq(tbl, Match)
    IN  [i \in DOMAIN hit |->
           <<Strip(hit[i][1]), Strip(hit[i][2]), hit[i][3], hit[i][4], hit[i][5]>>]

\* What the answer's rows look like in each mode.
Shaped(rows, mode) ==
    CASE mode = "cut1" -> [i \in DOMAIN rows |-> SubSeq(rows[i], 1, 1)]
      [] mode = "cut4" -> [i \in DOMAIN rows |-> SubSeq(rows[i], 1, 4)]
      [] mode = "long" -> [i \in DOMAIN rows |-> Append(rows[i], 0)]
      [] OTHER -> rows

columns == <<"SchdDeliveryPort", "ITEM_DESCRIPTION", "VendorName", "VendorCode", "OrderCount">>

\* `dict(zip(columns, row))`: zip stops at the shorter of the two.
ZipRow(row) ==
    LET n == Min(Len(columns), Len(row))
    IN  [c \in {columns[i] : i \in 1..n} |->
           row[CHOOSE i \in 1..n : columns[i] = c]]

\* lines 96-133
run_aggregation ==
    /\ fpc = "query"
    /\ IF ~Truthy(item_names) \/ ~Truthy(port_names)
         THEN /\ Return(<<>>)
              /\ UNCHANGED <<queries, malformed, result_dicts, item_set>>
         ELSE LET items == LowerAll(item_names.val)
                  ports == LowerAll(port_names.val)
              IN  \E mode \in AggModes :
                    LET rows == IF mode \in {"raise", "unparsable", "notlist"}
                                  THEN <<>>
                                  ELSE Shaped(AggRows(table, items, ports), mode)
                        dicts == [i \in DOMAIN rows |-> ZipRow(rows[i])]
                    IN  /\ queries' = Append(queries, Query("aggregation", <<>>, items, ports))
                        /\ malformed' = (malformed \/ mode \in {"unparsable", "notlist"}
                                           \/ (mode \in {"cut1", "cut4", "long"} /\ rows # <<>>))
                        /\ CASE mode = "raise" ->
                                  /\ Except("db.run")
                                  /\ UNCHANGED <<result_dicts, item_set>>
                             [] mode = "notlist" ->
                                  /\ Except("TypeError")
                                  /\ UNCHANGED <<result_dicts, item_set>>
                             [] \E i \in DOMAIN dicts : "ITEM_DESCRIPTION" \notin DOMAIN dicts[i] ->
                                  /\ Except("KeyError")
                                  /\ result_dicts' = dicts
                                  /\ UNCHANGED item_set
                             [] OTHER ->
                                  /\ result_dicts' = dicts
                                  /\ item_set' \in Orders({dicts[i]["ITEM_DESCRIPTION"] : i \in DOMAIN dicts})
                                  /\ Goto(IF dicts = <<>> THEN "rank" ELSE "fold")
    /\ nFolded' = 0
    /\ port_vendor_data' = <<>>
    /\ UNCHANGED <<connVars, reqVars, item_names, port_names, item_ids, port_ids,
                   item_results, port_results, table>>

\* ---- lines 136-150: the fold
RECURSIVE SumValues(_)
\* `sum(d.values())`
SumValues(d) ==
    IF DOMAIN d = {} THEN 0
    ELSE LET k == CHOOSE k \in DOMAIN d : TRUE
         IN  d[k] + SumValues([j \in DOMAIN d \ {k} |-> d[j]])

\* The mutant of RecomputeTotal: the sum is added to the running total.
RecomputeTotal_Accumulate(total, item_counts) == total + SumValues(item_counts)

\* line 150: `TotalCount = sum(ItemCounts.values())`
RecomputeTotal(total, item_counts) == SumValues(item_counts)

\* The mutant of AddCount: the row's count replaces the item's count.
AddCount_Overwrite(item_counts, item, count) ==
    (item :> count) @@ item_counts

\* line 148: `ItemCounts[item] = ItemCounts.get(item, 0) + count`
AddCount(item_counts, item, count) ==
    (item :> ((IF item \in DOMAIN item_counts THEN item_counts[item] ELSE 0) + count))
        @@ item_counts

\* The defaultdict's new entry.
NewEntry(vendor) ==
    [key |-> vendor, Items |-> <<>>, TotalCount |-> 0, ItemCounts |-> <<>>,
     VendorID |-> NoCode, VendorName |-> NoName]

\* The mutant of UpdateEntry: every row's vendor code replaces the
\* entry's VendorID.
UpdateEntry_LastCode(e, row) ==
    LET counts == AddCount(e.ItemCounts, row["ITEM_DESCRIPTION"], row["OrderCount"])
    IN  [key |-> e.key,
         VendorID |-> row["VendorCode"],
         VendorName |-> IF e.VendorName = NoName THEN row["VendorName"] ELSE e.VendorName,
         Items |-> Append(e.Items, row["ITEM_DESCRIPTION"]),
         ItemCounts |-> counts,
         TotalCount |-> RecomputeTotal(e.TotalCount, counts)]

\* lines 143-150 on the entry of the row's (port, vendor)
UpdateEntry(e, row) ==
    LET counts == AddCount(e.ItemCounts, row["ITEM_DESCRIPTION"], row["OrderCount"])
    IN  [key |-> e.key,
         VendorID |-> IF e.VendorID = NoCode THEN row["VendorCode"] ELSE e.VendorID,
         VendorName |-> IF e.VendorName = NoName THEN row["VendorName"] ELSE e.VendorName,
         Items |-> Append(e.Items, row["ITEM_DESCRIPTION"]),
         ItemCounts |-> counts,
         TotalCount |-> RecomputeTotal(e.TotalCount, counts)]

\* Position of the port's entry in the outer dict, 0 when there is none.
PortIndex(pvd, port) ==
    IF \E i \in DOMAIN pvd : pvd[i].port = port
      THEN CHOOSE i \in DOMAIN pvd : pvd[i].port = port ELSE 0

\* Position of the vendor's entry in a port's dict, 0 when there is none.
VendorIndex(vs, vendor) ==
    IF \E i \in DOMAIN vs : vs[i].key = vendor
      THEN CHOOSE i \in DOMAIN vs : vs[i].key = vendor ELSE 0

\* The mutant of FoldRow: the entry of (port, vendor) is made anew for
\* every row.
FoldRow_FreshEntry(pvd, row) ==
    LET port == row["SchdDeliveryPort"]
        vendor == row["VendorName"]
        pvd1 == IF PortIndex(pvd, port) = 0
                  THEN Append(pvd, [port |-> port, vendors |-> <<>>])
                  ELSE pvd
        pi == PortIndex(pvd1, port)
        vs == pvd1[pi].vendors
        vs1 == IF VendorIndex(vs, vendor) = 0
                 THEN Append(vs, NewEntry(vendor)) ELSE vs
        vi == VendorIndex(vs1, vendor)
    IN  [pvd1 EXCEPT ![pi].vendors =
            [vs1 EXCEPT ![vi] = UpdateEntry(NewEntry(vendor), row)]]

\* line 142 and on: `port_vendor_data[port][vendor]`, created when missing
\* (a dict keeps its keys in insertion order), then updated.
FoldRow(pvd, row) ==
    LET port == row["SchdDeliveryPort"]
        vendor == row["VendorName"]
        pvd1 == IF PortIndex(pvd, port) = 0
                  THEN Append(pvd, [port |-> port, vendors |-> <<>>])
                  ELSE pvd
        pi == PortIndex(pvd1, port)
        vs == pvd1[pi].vendors
        vs1 == IF VendorIndex(vs, vendor) = 0
                 THEN Append(vs, NewEntry(vendor)) ELSE vs
        vi == VendorIndex(vs1, vendor)
    IN  [pvd1 EXCEPT ![pi].vendors = [vs1 EXCEPT ![vi] = UpdateEntry(vs1[vi], row)]]

\* One pass of the loop of line 136.
fold_row ==
    /\ fpc = "fold"
    /\ nFolded < Len(result_dicts)
    /\ LET row == result_dicts[nFolded + 1]
       IN  IF \E i \in DOMAIN columns : columns[i] \notin DOMAIN row
             THEN /\ Except("KeyError")
                  /\ UNCHANGED <<port_vendor_data, nFolded>>
             ELSE /\ port_vendor_data' = FoldRow(port_vendor_data, row)
                  /\ nFolded' = nFolded + 1
                  /\ Goto(IF nFolded + 1 = Len(result_dicts) THEN "rank" ELSE "fold")
    /\ UNCHANGED <<connVars, reqVars, item_names, port_names, item_ids, port_ids,
                   item_results, port_results, table, queries, result_dicts,
                   item_set, malformed>>

\* ---- lines 151-171: the ranking
\* Insert x behind every element whose total is at least x's.
RECURSIVE InsertDesc(_, _)
InsertDesc(x, seq) ==
    IF seq = <<>> THEN <<x>>
    ELSE IF Head(seq).TotalCount >= x.TotalCount
           THEN <<Head(seq)>> \o InsertDesc(x, Tail(seq))
           ELSE <<x>> \o seq

\* The mutant of SortedVendors: `reverse=True` forgotten.
RECURSIVE InsertAsc(_, _)
InsertAsc(x, seq) ==
    IF seq = <<>> THEN <<x>>
    ELSE IF Head(seq).TotalCount <= x.TotalCount
           THEN <<Head(seq)>> \o InsertAsc(x, Tail(seq))
           ELSE <<x>> \o seq

RECURSIVE SortedVendors_Ascending(_)
SortedVendors_Ascending(vs) ==
    IF vs = <<>> THEN <<>>
    ELSE InsertAsc(vs[Len(vs)], SortedVendors_Ascending(SubSeq(vs, 1, Len(vs) - 1)))

\* The mutant of SortedVendors: a sort that is not stable, vendors with
\* equal totals come out in the reverse of their insertion order.
RECURSIVE InsertDescFirst(_, _)
InsertDescFirst(x, seq) ==
    IF seq = <<>> THEN <<x>>
    ELSE IF Head(seq).TotalCount > x.TotalCount
           THEN <<Head(seq)>> \o InsertDescFirst(x, Tail(seq))
           ELSE <<x>> \o seq

RECURSIVE SortedVendors_TiesReversed(_)
SortedVendors_TiesReversed(vs) ==
    IF vs = <<>> THEN <<>>
    ELSE InsertDescFirst(vs[Len(vs)],
                         SortedVendors_TiesReversed(SubSeq(vs, 1, Len(vs) - 1)))

\* line 157: `sorted(vendors.values(), key=TotalCount, reverse=True)`, a
\* stable sort: vendors with equal totals keep their insertion order.
RECURSIVE SortedVendors(_)
SortedVendors(vs) ==
    IF vs = <<>> THEN <<>>
    ELSE InsertDesc(vs[Len(vs)], SortedVendors(SubSeq(vs, 1, Len(vs) - 1)))

\* `sorted_vendors[:2]`
TopN == 2

\* The mutant of RankingRow: the breakdown lists only the items the vendor
\* has rows for.
RankingRow_OwnItems(port, vendor, items) ==
    LET Own(item) == item \in DOMAIN vendor.ItemCounts
        own == SelectSeq(items, Own)
    IN  [Port |-> port,
         Item |-> items,
         VendorName |-> vendor.VendorName,
         VendorID |-> vendor.VendorID,
         totalOrderCount |-> vendor.TotalCount,
         Description |->
            [i \in DOMAIN own |-> <<own[i], vendor.ItemCounts[own[i]]>>]]

\* lines 159-170: the row emitted for one vendor of one port.
RankingRow(port, vendor, items) ==
    [Port |-> port,
     Item |-> items,
     VendorName |-> vendor.VendorName,
     VendorID |-> vendor.VendorID,
     totalOrderCount |-> vendor.TotalCount,
     Description |->
        [i \in DOMAIN items |->
           <<items[i], IF items[i] \in DOMAIN vendor.ItemCounts
                         THEN vendor.ItemCounts[items[i]] ELSE 0>>]]

\* lines 153-170
RECURSIVE Ranked(_, _)
Ranked(pvd, items) ==
    IF pvd = <<>> THEN <<>>
    ELSE LET sorted == SortedVendors(Head(pvd).vendors)
             top == SubSeq(sorted, 1, Min(TopN, Len(sorted)))
         IN  [i \in DOMAIN top |-> RankingRow(Head(pvd).port, top[i], items)]
               \o Ranked(Tail(pvd), items)

rank_vendors ==
    /\ fpc = "rank"
    /\ Return(Ranked(port_vendor_data, item_set))
    /\ UNCHANGED <<connVars, reqVars, item_names, port_names, item_ids, port_ids,
                   item_results, port_results, table, queries, result_dicts,
                   nFolded, item_set, port_vendor_data, malformed>>

\* ---- lines 175-549: handle_query
\* ModelInput.user_query: None, or a string.
NoQuery == "<None>"
UserQueryInputs == {NoQuery, <<>>, <<" ">>, <<"q">>}

\* No request in progress, and nothing sent.
NoInput ==
    [item_name |-> Absent, port_name |-> Absent, item_id |-> Absent,
     port_id |-> Absent, user_query |-> NoQuery]
NoResponse == [status |-> 0, body |-> [nothing |-> TRUE]]

\* The mutant of VendorPath: anything for the item together with anything
\* for the port will do, a name for the one and an id for the other too.
VendorPath_AnyPair(u) ==
    /\ Truthy(u.item_name) \/ Truthy(u.item_id)
    /\ Truthy(u.port_name) \/ Truthy(u.port_id)

\* line 182: names for both, or ids for both.
VendorPath(u) ==
    \/ Truthy(u.item_name) /\ Truthy(u.port_name)
    \/ Truthy(u.item_id) /\ Truthy(u.port_id)

\* line 205: `userinput.user_query and userinput.user_query.strip()`
HasQuery(u) ==
    /\ u.user_query # NoQuery
    /\ u.user_query # <<>>
    /\ Strip(u.user_query) # <<>>

\* `return <dict>`: FastAPI answers 200 with the dict as the body.
Ok(body) == [status |-> 200, body |-> body]

\* lines 547-549: `except Exception` raises HTTPException(status_code=500).
ServerError ==
    [status |-> 500,
     body |-> [detail |-> "An error occurred while processing the request."]]

\* line 534
ProvideBoth ==
    [message |-> "Please provide both item names and port names for vendor analysis."]

\* The mutant of VendorResponse: an empty list is answered as an error.
VendorResponse_EmptyIsError(top_vendors) ==
    IF top_vendors # <<>>
      THEN Ok([response |-> "", top_vendors |-> top_vendors])
      ELSE ServerError

\* lines 191-201: the body for what fetch_top_vendors returned.
VendorResponse(top_vendors) ==
    IF top_vendors # <<>>
      THEN Ok([response |-> "", top_vendors |-> top_vendors])
      ELSE Ok([response |-> "No top vendors found for the specified criteria.",
               top_vendors |-> <<>>])

\* lines 179-190 and 205-534: the handler picks its path; on the vendor
\* path it calls fetch_top_vendors with the four lists of the request.
handle_query_route ==
    /\ hq = "route"
    /\ IF VendorPath(userinput)
         THEN /\ hq' = "vendor"
              /\ fpc' = "begin"
              /\ item_names' = userinput.item_name
              /\ port_names' = userinput.port_name
              /\ item_ids' = userinput.item_id
              /\ port_ids' = userinput.port_id
              /\ response_data' = response_data
         ELSE /\ IF HasQuery(userinput)
                   THEN /\ hq' = "agent"
                        /\ response_data' = response_data
                   ELSE /\ hq' = "responded"
                        /\ response_data' = Ok(ProvideBoth)
              /\ UNCHANGED <<fpc, item_names, port_names, item_ids, port_ids>>
    /\ UNCHANGED <<connVars, userinput, item_results, port_results, table,
                   queries, result_dicts, nFolded, item_set, port_vendor_data,
                   final_result, outcome, logged, malformed>>

\* lines 206-533: the SQL agent answers the free-text query, or something
\* in it raises and the handler of line 547 answers 500.
handle_query_agent ==
    /\ hq = "agent"
    /\ \E ok \in BOOLEAN :
         response_data' = IF ok
                            THEN Ok([response |-> "<agent output>",
                                     top_vendors |-> <<>>])
                            ELSE ServerError
    /\ hq' = "responded"
    /\ UNCHANGED <<connVars, userinput, fetchCall>>

\* lines 191-203, 547-549: fetch_top_vendors is back; the handler builds the
\* body from the list, or, had the call raised, answers 500.
handle_query_respond ==
    /\ hq = "vendor"
    /\ fpc = "done"
    /\ response_data' = IF outcome = "raised"
                          THEN ServerError
                          ELSE VendorResponse(final_result)
    /\ hq' = "responded"
    /\ UNCHANGED <<connVars, userinput, fetchCall>>

\* ---- the specifications
\* Longest table in the fold's specification.
MaxRows == 3

bolt == <<"b">>
boltSp == <<"b", " ">>
Bolt == <<"B">>
nut == <<"n">>
rotterdam == <<"r">>
oslo == <<"o">>

\* The grouped rows of the view: (port, item, vendor name, vendor code, count).
RowPool ==
    { <<rotterdam, bolt, "A", 1, 3>>,
      <<rotterdam, boltSp, "A", 1, 4>>,
      <<rotterdam, nut, "A", 2, 7>>,
      <<rotterdam, bolt, "B", NoCode, 7>>,
      <<rotterdam, nut, "B", 5, 3>>,
      <<rotterdam, bolt, "C", 3, 7>>,
      <<rotterdam, Bolt, "C", 3, 10>>,
      <<oslo, bolt, "A", 1, 4>>,
      <<oslo, nut, "C", NoCode, 3>>,
      <<oslo, bolt, "B", 5, 3>> }

FetchTable == << <<rotterdam, bolt, "A", 1, 3>>, <<rotterdam, boltSp, "A", 1, 4>>,
                 <<rotterdam, bolt, "B", 5, 3>> >>

\* fetch_top_vendors is called on its own, not by a request.
NoRequest ==
    /\ userinput = NoInput
    /\ hq = "off"
    /\ response_data = NoResponse

\* No fetch_top_vendors call in flight.
FetchOff ==
    /\ fpc = "off"
    /\ item_names = Absent /\ port_names = Absent
    /\ item_ids = Absent /\ port_ids = Absent
    /\ item_results = <<>> /\ port_results = <<>>
    /\ table = <<>>
    /\ queries = <<>>
    /\ result_dicts = <<>>
    /\ nFolded = 0
    /\ item_set = <<>>
    /\ port_vendor_data = <<>>
    /\ final_result = <<>>
    /\ outcome = "running"
    /\ logged = "none"
    /\ malformed = FALSE
    /\ NoRequest

\* No worker at work.
ConnOff == ConnInit /\ wh = "STOPPED"

\* A fetch_top_vendors call about to run its first statement.
FetchStart ==
    /\ fpc = "begin"
    /\ item_results = <<>> /\ port_results = <<>>
    /\ queries = <<>>
    /\ result_dicts = <<>>
    /\ nFolded = 0
    /\ item_set = <<>>
    /\ port_vendor_data = <<>>
    /\ final_result = <<>>
    /\ outcome = "running"
    /\ logged = "none"
    /\ malformed = FALSE

FetchInit ==
    /\ ConnOff
    /\ FetchStart
    /\ NoRequest
    /\ item_names \in ItemNameInputs
    /\ port_names \in PortNameInputs
    /\ item_ids \in ItemIdInputs
    /\ port_ids \in PortIdInputs
    /\ table = FetchTable

FoldInit ==
    /\ ConnOff
    /\ FetchStart
    /\ NoRequest
    /\ item_names = Given(<<bolt, nut>>)
    /\ port_names = Given(<<rotterdam, oslo>>)
    /\ item_ids = Absent
    /\ port_ids = Absent
    /\ table \in SeqsUpTo(RowPool, MaxRows)

FetchNext ==
    \/ fetch_begin
    \/ resolve_items
    \/ resolve_ports
    \/ run_aggregation
    \/ fold_row
    \/ rank_vendors

\* A request has arrived, with any body of the pools.
QueryInit ==
    /\ ConnOff
    /\ fpc = "off"
    /\ item_names = Absent /\ port_names = Absent
    /\ item_ids = Absent /\ port_ids = Absent
    /\ item_results = <<>> /\ port_results = <<>>
    /\ table = FetchTable
    /\ queries = <<>>
    /\ result_dicts = <<>>
    /\ nFolded = 0
    /\ item_set = <<>>
    /\ port_vendor_data = <<>>
    /\ final_result = <<>>
    /\ outcome = "running"
    /\ logged = "none"
    /\ malformed = FALSE
    /\ userinput \in [item_name : ItemNameInputs, port_name : PortNameInputs,
                       item_id : ItemIdInputs, port_id : PortIdInputs,
                       user_query : UserQueryInputs]
    /\ hq = "route"
    /\ response_data = NoResponse

QueryNext ==
    \/ handle_query_route
    \/ handle_query_agent
    \/ FetchNext
    \/ handle_query_respond

Init == ConnInit /\ FetchOff

Next == ConnNext

Spec == Init /\ [][Next]_vars

\* A step of worker w inside an operation it has started.
Step(w) ==
    \/ new_check1(w)
    \/ new_acquire(w)
    \/ new_check2(w)
    \/ start_cache_lookup(w)
    \/ is_warehouse_running(w)
    \/ cache_store(w)
    \/ start_post(w)
    \/ start_cache_clear(w)
    \/ initialize_instance(w)
    \/ new_return(w)
    \/ keep_connection_alive(w)
    \/ handle_query(w)
    \/ stop_post(w)
    \/ stop_cache_clear(w)

\* Fair scheduling: a thread that can take its next step (its remote call
\* returns, the lock it waits for is free) eventually takes it. Nothing
\* obliges a new operation to start.
Fairness == \A w \in Workers : WF_vars(Step(w))

SpecLive == Init /\ [][Next]_vars /\ Fairness

\* fetch_top_vendors on every input of the pools, against one small table.
SpecFetch == FetchInit /\ [][FetchNext]_vars

\* handle_query on every request body of the pools, against the same table.
SpecQuery == QueryInit /\ [][QueryNext]_vars

\* fetch_top_vendors by names, against every table up to MaxRows rows.
SpecFold == FoldInit /\ [][FetchNext]_vars

\* ================================================================ claims
\* A worker's get_instance() has given it a handle.
GotHandle(w) == ret[w] # NoHandle /\ ret[w] # Raised

\* C1: when no handle exists and the workers call get_instance() at the same
\* time, SQLDatabase.from_databricks is called once and every caller gets the
\* same handle object. In every interleaving at most one construction
\* succeeds and every handle handed out is the stored one; and as long as no
\* construction has raised, from_databricks has been called at most once,
\* exactly once as soon as some caller holds a handle.
C1_SingleConstruction ==
    /\ nConstruct - nFailed <= 1
    /\ \A w \in Workers : GotHandle(w) => ret[w] = instance
    /\ \A w1, w2 \in Workers : GotHandle(w1) /\ GotHandle(w2) => ret[w1] = ret[w2]
    /\ nFailed = 0 => nConstruct <= 1
    /\ nFailed = 0 /\ (\E w \in Workers : GotHandle(w)) => nConstruct = 1

\* C1's case: one caller already holds the handle while another, which saw
\* no handle at the unlocked test, holds the lock and is about to test again.
C1_Witness ==
    \E w1, w2 \in Workers :
        /\ w1 # w2
        /\ GotHandle(w1)
        /\ pc[w2] = "check2"
        /\ lock = w2
        /\ nConstruct = 1 /\ nFailed = 0

\* C2: once a probe on a handle has failed, no get_instance() call that
\* begins afterwards returns that handle.
C2_NoStaleHandle ==
    \A w \in Workers : GotHandle(w) => ret[w] \notin callStale[w]

\* ---- the state of a fetch_top_vendors call
\* The aggregates, as the set of (port, entry) pairs.
Aggregates ==
    UNION { {<<port_vendor_data[i].port, port_vendor_data[i].vendors[j]>> :
                j \in DOMAIN port_vendor_data[i].vendors} :
            i \in DOMAIN port_vendor_data }

\* The sum of OrderCount over the first n rows of the answer that are of the
\* given port and vendor and of one of the given items.
RECURSIVE OrderSum(_, _, _, _)
OrderSum(n, port, vendor, items) ==
    IF n = 0 THEN 0
    ELSE LET r == result_dicts[n]
         IN  OrderSum(n - 1, port, vendor, items)
               + (IF /\ r["SchdDeliveryPort"] = port
                     /\ r["VendorName"] = vendor
                     /\ r["ITEM_DESCRIPTION"] \in items
                    THEN r["OrderCount"] ELSE 0)

\* The sum of the values of a map, one key after the other.
RECURSIVE Total(_, _)
Total(d, keys) ==
    IF keys = {} THEN 0
    ELSE LET k == CHOOSE k \in keys : TRUE IN d[k] + Total(d, keys \ {k})

\* C3: during the fold, after every row, the TotalCount of every aggregate is
\* the sum of the values of its ItemCounts.
C3_TotalIsSumOfItemCounts ==
    \A a \in Aggregates :
        a[2].TotalCount = Total(a[2].ItemCounts, DOMAIN a[2].ItemCounts)

\* C3's case: mid-fold, an aggregate that two rows with different items have
\* gone into.
C3_Witness ==
    /\ fpc = "fold"
    /\ nFolded >= 2
    /\ \E a \in Aggregates : Cardinality(DOMAIN a[2].ItemCounts) = 2

\* Every row of the answer has been folded.
FoldDone ==
    /\ fpc \in {"rank", "done"}
    /\ logged = "none"
    /\ \E i \in DOMAIN queries : queries[i].kind = "aggregation"

AllItems == {result_dicts[i]["ITEM_DESCRIPTION"] : i \in DOMAIN result_dicts}

\* C4: after the fold, ItemCounts[item] of the aggregate of (port, vendor) is
\* the sum of OrderCount over the rows of that port, vendor and item, and its
\* TotalCount the sum over the rows of that port and vendor; there is one
\* aggregate for every (port, vendor) of the rows, and no other.
C4_FoldSums ==
    FoldDone =>
        /\ \A i \in DOMAIN result_dicts :
             \E a \in Aggregates :
                /\ a[1] = result_dicts[i]["SchdDeliveryPort"]
                /\ a[2].key = result_dicts[i]["VendorName"]
                /\ result_dicts[i]["ITEM_DESCRIPTION"] \in DOMAIN a[2].ItemCounts
        /\ \A a \in Aggregates :
             /\ \A item \in DOMAIN a[2].ItemCounts :
                  a[2].ItemCounts[item]
                      = OrderSum(Len(result_dicts), a[1], a[2].key, {item})
             /\ a[2].TotalCount = OrderSum(Len(result_dicts), a[1], a[2].key, AllItems)
             /\ a[2].TotalCount > 0
        /\ \A a, b \in Aggregates : a[1] = b[1] /\ a[2].key = b[2].key => a = b

\* C4's case: two rows of the same port, item and vendor, with counts 3 and 4,
\* give ItemCounts[item] = 7 and TotalCount = 7.
C4_Witness ==
    /\ FoldDone
    /\ Len(result_dicts) = 2
    /\ result_dicts[1]["OrderCount"] = 3
    /\ result_dicts[2]["OrderCount"] = 4
    /\ \E a \in Aggregates :
          /\ a[2].ItemCounts = (bolt :> 7)
          /\ a[2].TotalCount = 7

\* The call has ranked and returned.
RankDone == FoldDone /\ fpc = "done" /\ outcome = "returned"

PortsOfRows == {result_dicts[i]["SchdDeliveryPort"] : i \in DOMAIN result_dicts}

VendorsAt(port) ==
    {result_dicts[i]["VendorName"] :
        i \in {k \in DOMAIN result_dicts : result_dicts[k]["SchdDeliveryPort"] = port}}

\* The rows emitted for a port, in the order of the returned list.
Emitted(port) ==
    LET OfPort(row) == row.Port = port IN SelectSeq(final_result, OfPort)

\* C5: for every port of the aggregation rows the call emits min(2, number
\* of vendors with rows at the port) rows, in non-increasing order of
\* totalOrderCount, each for another vendor of the port with that vendor's
\* total, and no vendor left out has a larger total than an emitted one.
C5_TopTwoPerPort ==
    RankDone =>
        /\ \A i \in DOMAIN final_result : final_result[i].Port \in PortsOfRows
        /\ \A port \in PortsOfRows :
             LET e == Emitted(port)
                 names == {e[i].VendorName : i \in DOMAIN e}
             IN  /\ Len(e) = Min(2, Cardinality(VendorsAt(port)))
                 /\ Cardinality(names) = Len(e)
                 /\ names \subseteq VendorsAt(port)
                 /\ \A i \in DOMAIN e :
                      e[i].totalOrderCount
                          = OrderSum(Len(result_dicts), port, e[i].VendorName, AllItems)
                 /\ \A i, j \in DOMAIN e :
                      i < j => e[i].totalOrderCount >= e[j].totalOrderCount
                 /\ \A v \in VendorsAt(port) \ names : \A i \in DOMAIN e :
                      OrderSum(Len(result_dicts), port, v, AllItems) <= e[i].totalOrderCount

\* C5's case: a port with three vendors, the one with the largest total
\* arriving last, of which two are emitted.
C5_Witness ==
    /\ RankDone
    /\ Cardinality(VendorsAt(rotterdam)) = 3
    /\ Len(final_result) = 2
    /\ final_result[1].VendorName = result_dicts[3]["VendorName"]
    /\ final_result[1].totalOrderCount > final_result[2].totalOrderCount

\* An argument that is None or the empty list.
NoneOrEmpty(x) == ~x.given \/ x.val = <<>>

\* C6: called with no ids and with no item names or no port names, the call
\* returns the empty list and never calls db.run.
C6_EmptyInputShortCircuit ==
    /\ NoneOrEmpty(item_ids) /\ NoneOrEmpty(port_ids)
    /\ NoneOrEmpty(item_names) \/ NoneOrEmpty(port_names)
    => /\ queries = <<>>
       /\ logged = "none"
       /\ fpc = "done" => outcome = "returned" /\ final_result = <<>>

\* C6's case: such a call has returned.
C6_Witness ==
    /\ fpc = "done"
    /\ item_ids = Absent /\ port_ids = Given(<<>>)
    /\ item_names = Given(<<>>) /\ port_names.val # <<>>
    /\ final_result = <<>>

\* db.run has been called for a query of this kind.
Issued(kind) == \E i \in DOMAIN queries : queries[i].kind = kind

\* None of the ids has a row in the lookup's answer.
NoMatch(ids, rows) ==
    \A i \in DOMAIN ids : \A k \in DOMAIN rows : rows[k][1] # ids[i]

\* C7: when item ids (or port ids) are passed and none of them has a row in
\* the lookup's answer, id resolution gives the empty name list and raises
\* nothing, the aggregation query is never issued, and the call returns the
\* empty list.
C7_UnresolvedIds ==
    /\ /\ ~NoneOrEmpty(item_ids) /\ NoMatch(item_ids.val, item_results)
       /\ fpc \in {"ports", "query", "fold", "rank"}
       => item_names = Given(<<>>) /\ logged = "none" /\ fpc \in {"ports", "query"}
    /\ /\ ~NoneOrEmpty(port_ids) /\ NoMatch(port_ids.val, port_results)
       /\ fpc \in {"query", "fold", "rank"}
       => port_names = Given(<<>>) /\ logged = "none" /\ fpc = "query"
    /\ \/ ~NoneOrEmpty(item_ids) /\ Issued("item_lookup")
             /\ NoMatch(item_ids.val, item_results)
       \/ ~NoneOrEmpty(port_ids) /\ Issued("port_lookup")
             /\ NoMatch(port_ids.val, port_results)
       => /\ ~Issued("aggregation")
          /\ outcome # "raised"
          /\ fpc = "done" => outcome = "returned" /\ final_result = <<>>

\* C7's case: the lookup answered with a row for another id than the one
\* asked for, port names were passed, and the call has returned.
C7_Witness ==
    /\ fpc = "done"
    /\ item_ids = Given(<<2>>)
    /\ item_results = << <<1, boltSp>> >>
    /\ item_names = Given(<<>>)
    /\ ~NoneOrEmpty(port_names)
    /\ logged = "none"
    /\ final_result = <<>>

\* names is what resolving ids against the rows must give: going through the
\* ids in order, an id with a row contributes a trimmed name of one of its
\* rows (of its only row, when it has one row), an id without contributes
\* nothing.
RECURSIVE ResolvesTo(_, _, _)
ResolvesTo(ids, rows, names) ==
    IF ids = <<>> THEN names = <<>>
    ELSE LET mine == {k \in DOMAIN rows : rows[k][1] = Head(ids)}
         IN  IF mine = {}
               THEN ResolvesTo(Tail(ids), rows, names)
               ELSE /\ names # <<>>
                    /\ \E k \in mine : Head(names) = Strip(rows[k][2])
                    /\ Head(names) = <<>> \/
                         (Head(Head(names)) # Space /\ Head(names)[Len(Head(names))] # Space)
                    /\ ResolvesTo(Tail(ids), rows, Tail(names))

\* C8: for the ids passed and a well-formed lookup answer, id resolution
\* gives the trimmed names of the ids that have a lookup row, in the order of
\* the ids; ids without a row add nothing and raise nothing, and the list is
\* never longer than the id list.
C8_ResolutionInIdOrder ==
    /\ ~NoneOrEmpty(item_ids) /\ fpc \in {"ports", "query"}
       => /\ ResolvesTo(item_ids.val, item_results, item_names.val)
          /\ Len(item_names.val) <= Len(item_ids.val)
          /\ logged = "none"
    /\ ~NoneOrEmpty(port_ids) /\ fpc = "query"
       => /\ ResolvesTo(port_ids.val, port_results, port_names.val)
          /\ Len(port_names.val) <= Len(port_ids.val)
          /\ logged = "none"

\* C8's case: ids 2 and 1 asked in that order, answered in the other order
\* with untrimmed names.
C8_Witness ==
    /\ fpc = "ports"
    /\ item_ids = Given(<<2, 1>>)
    /\ item_results = << <<1, boltSp>>, <<2, <<" ", "n">> >> >>
    /\ item_names = Given(<<nut, bolt>>)

\* C9: the call never raises to its caller; when db.run raises, at the item
\* lookup, the port lookup or the aggregation query, or anything else raises,
\* the call returns the empty list.
C9_NeverRaises ==
    /\ outcome # "raised"
    /\ logged # "none" => fpc = "done" /\ outcome = "returned" /\ final_result = <<>>

\* C9's case: db.run raised at the aggregation query, after both lookups.
C9_Witness ==
    /\ logged = "db.run"
    /\ Len(queries) = 3
    /\ queries[3].kind = "aggregation"
    /\ fpc = "done"

\* C10: when an answer of db.run was a string that cannot be parsed into a
\* list of tuples, or held a row of the wrong length, the call does not end
\* by returning the empty list as it does when no row matched.
C10_MalformedNotEmpty ==
    fpc = "done" /\ malformed => ~(outcome = "returned" /\ final_result = <<>>)

\* C11: once a db.run of a query has raised on a handle, no get_instance()
\* call that begins afterwards returns that handle: the handle has been
\* marked stale, so the call probes or replaces it.
C11_NoBrokenHandle ==
    \A w \in Workers : GotHandle(w) => ret[w] \notin callBroken[w]

\* The construction attempts worker w has made in its current call.
Attempts(w) ==
    Cardinality({i \in DOMAIN log[w] :
                    log[w][i] \in {"construct_ok", "construct_fail"}})

\* C12: a construction attempt that raises does not make get_instance()
\* fail when it is the call's first: the call tries again, and fails only
\* once its attempts are exhausted.
C12_RetriesConstruction ==
    [][\A w \in Workers :
          pc[w] = "init" /\ pc'[w] # "init" /\ nFailed' > nFailed
              /\ Attempts(w) = 0
          => ret'[w] # Raised]_vars

\* Worker w is inside a get_instance() call.
InGetInstance(w) ==
    /\ op[w] \in QueryOps
    /\ pc[w] \in {"check1", "acquire", "check2", "sw_cache", "sw_poll",
                  "sw_store", "sw_post", "sw_clear", "init", "ret"}

\* Worker w is inside the `with cls._lock:` block.
InLockedBlock(w) ==
    /\ op[w] \in QueryOps
    /\ pc[w] \in {"check2", "sw_cache", "sw_poll", "sw_store", "sw_post",
                  "sw_clear", "init"}

\* C13: under fair scheduling every get_instance() call finishes, by
\* returning or by raising, after at most one construction attempt; the
\* lock is held only by a caller inside the locked block, so it is free
\* again on every path out of it, a construction that raises included, and
\* no caller waits for it forever.
C13_EveryCallFinishes ==
    /\ [](\A w \in Workers : lock = w <=> InLockedBlock(w))
    /\ [](\A w \in Workers : Attempts(w) <= 1)
    /\ \A w \in Workers : InGetInstance(w) ~> ~InGetInstance(w)

\* C13's case: a construction has raised in one caller, and another caller
\* has taken the lock after it.
C13_Witness ==
    \E w1, w2 \in Workers :
        /\ w1 # w2
        /\ ret[w1] = Raised /\ pc[w1] = "idle"
        /\ nFailed = 1 /\ nConstruct = 1
        /\ pc[w2] = "check2" /\ lock = w2

\* The fold of line 136 over a whole list of rows.
RECURSIVE FoldAll(_)
FoldAll(rows) ==
    IF rows = <<>> THEN <<>>
    ELSE FoldRow(FoldAll(SubSeq(rows, 1, Len(rows) - 1)), rows[Len(rows)])

\* The rows of the answer in every order they can arrive in.
Arrivals ==
    {[i \in DOMAIN result_dicts |-> result_dicts[p[i]]] :
        p \in Orders(DOMAIN result_dicts)}

\* The rows are of one port with three vendors, of totals 10, 7 and 7.
TenSevenSeven ==
    /\ Cardinality(PortsOfRows) = 1
    /\ \A port \in PortsOfRows :
         /\ Cardinality(VendorsAt(port)) = 3
         /\ \E v \in VendorsAt(port) :
              /\ OrderSum(Len(result_dicts), port, v, AllItems) = 10
              /\ \A u \in VendorsAt(port) \ {v} :
                   OrderSum(Len(result_dicts), port, u, AllItems) = 7

\* C14: with three vendors of totals 10, 7 and 7 at one port the call
\* returns the vendor of total 10 and one of the two others, and the one it
\* returns is the same in whatever order the rows arrive.
C14_TieChoiceFixed ==
    RankDone /\ TenSevenSeven =>
        /\ Len(final_result) = 2
        /\ final_result[1].totalOrderCount = 10
        /\ final_result[2].totalOrderCount = 7
        /\ \A rows \in Arrivals :
             LET other == Ranked(FoldAll(rows), item_set)
             IN  {other[i].VendorName : i \in DOMAIN other}
                    = {final_result[i].VendorName : i \in DOMAIN final_result}

\* ---- names that differ only in case or in leading and trailing blanks
AllBlank(s) == \A i \in DOMAIN s : s[i] = " "

SameLetter(c, d) ==
    \/ c = d
    \/ {c, d} \in {{"b", "B"}, {"n", "N"}, {"r", "R"}}

SameLetters(s, t) ==
    /\ Len(s) = Len(t)
    /\ \A i \in DOMAIN s : SameLetter(s[i], t[i])

\* s without its first i and last j characters, all of them blanks.
Cores(s) ==
    {SubSeq(s, i + 1, Len(s) - j) :
        <<i, j>> \in {ij \in (0..Len(s)) \X (0..Len(s)) :
                        /\ ij[1] + ij[2] <= Len(s)
                        /\ AllBlank(SubSeq(s, 1, ij[1]))
                        /\ AllBlank(SubSeq(s, Len(s) - ij[2] + 1, Len(s)))}}

Variant(s, t) == \E c \in Cores(s) : \E d \in Cores(t) : SameLetters(c, d)

\* Every name of one list is a variant of a name of the other.
SameNames(l, m) ==
    /\ \A i \in DOMAIN l : \E k \in DOMAIN m : Variant(l[i], m[k])
    /\ \A k \in DOMAIN m : \E i \in DOMAIN l : Variant(l[i], m[k])

\* A key of the filter: no capital, no blank at either end.
Canonical(k) ==
    /\ \A i \in DOMAIN k : k[i] \notin {"B", "N", "R"}
    /\ k # <<>> => k[1] # " " /\ k[Len(k)] # " "

\* The rows of the table whose item and port are variants of names asked for.
Asked(items, ports) ==
    {i \in DOMAIN table :
        /\ \E k \in DOMAIN items : Variant(items[k], table[i][2])
        /\ \E k \in DOMAIN ports : Variant(ports[k], table[i][1])}

\* C15: the names the aggregation query filters on are the names passed,
\* each without case and without blanks at its ends, so that lists of names
\* that are variants of one another filter on the same set of keys (the
\* names ["b", "B "] on the single key "b"), and the rows the query answers
\* are the rows whose item and port are variants of names passed.
C15_NamesNormalised ==
    \A q \in DOMAIN queries : queries[q].kind = "aggregation" =>
        /\ \A k \in DOMAIN queries[q].items : Canonical(queries[q].items[k])
        /\ \A k \in DOMAIN queries[q].ports : Canonical(queries[q].ports[k])
        /\ SameNames(item_names.val, queries[q].items)
        /\ SameNames(port_names.val, queries[q].ports)
        /\ \A x \in ItemNameInputs :
             Truthy(x) /\ SameNames(x.val, item_names.val)
                => Range(LowerAll(StripAll(x.val))) = Range(queries[q].items)
        /\ \A x \in PortNameInputs :
             Truthy(x) /\ SameNames(x.val, port_names.val)
                => Range(LowerAll(StripAll(x.val))) = Range(queries[q].ports)
        /\ logged = "none" /\ ~malformed
             => Len(result_dicts)
                    = Cardinality(Asked(item_names.val, port_names.val))

\* C15's case: the names "b" and "B " were passed, and the query filtered on
\* the key "b" alone and answered the three rows of that item.
C15_Witness ==
    /\ NoneOrEmpty(item_ids) /\ NoneOrEmpty(port_ids)
    /\ item_names = Given(<< <<"b">>, <<"B">> >>)
    /\ \E q \in DOMAIN queries :
         /\ queries[q].kind = "aggregation"
         /\ Range(queries[q].items) = {<<"b">>}
    /\ Len(result_dicts) = 3

\* What is_warehouse_running() can log when it answers False.
NotRunning == {"hit_false", "poll_false", "poll_fail"}

\* What start_databricks_warehouse() has done in w's get_instance() call:
\* w's log behind the lock's "acquire".
StartLog(w) == Tail(log[w])

\* C16: start_databricks_warehouse() has returned to __new__ either having
\* found the warehouse running, with no start request and no invalidation,
\* or having found it not running, issued one start request and then
\* invalidated the cache, with no status poll after the request.
C16_StartInvalidates ==
    \A w \in Workers : op[w] \in QueryOps /\ pc[w] = "init" =>
        \/ StartLog(w) \in {<<"hit_true">>, <<"poll_true">>}
        \/ \E e \in NotRunning : StartLog(w) = <<e, "start_ok", "clear">>

\* C17: once every start or stop call whose request was accepted has
\* completed, the cache holds no run-state observed before that request, so
\* the next is_warehouse_running() call polls the status endpoint again;
\* also when a status poll was in flight while the call ran.
C17_NoOutdatedState ==
    (\A w \in Workers : pc[w] \notin {"sw_clear", "stop_clear"})
        => (cache # "empty" => ~cacheStale)

\* C18: when the start request a get_instance() call has issued failed (a
\* non-2xx answer or a transport error), the call constructs and stores no
\* handle.
C18_NoHandleAfterFailedStart ==
    \A w \in Workers :
        op[w] \in QueryOps /\ "start_fail" \in Range(log[w])
            => "construct_ok" \notin Range(log[w])

\* C19: when the GET of the status endpoint failed (unreachable, or a
\* non-success answer), what is_warehouse_running() gives its caller is not
\* the False it gives for a warehouse observed not running.
C19_StatusFailureReported ==
    \A w \in Workers :
        pc[w] = "sw_store" /\ log[w][Len(log[w])] = "poll_fail"
            => polled[w] # FALSE

\* The sum of the counts of a breakdown.
RECURSIVE SumCounts(_)
SumCounts(d) == IF d = <<>> THEN 0 ELSE d[1][2] + SumCounts(Tail(d))

\* C20: every row emitted carries a breakdown with exactly one entry for
\* every item of the aggregation rows, of whatever port or vendor; the entry
\* of an item is the sum of OrderCount over the rows of the row's port and
\* vendor for that item, 0 when there is none, and the entries add up to the
\* row's totalOrderCount.
C20_BreakdownComplete ==
    RankDone =>
        \A r \in DOMAIN final_result :
            LET row == final_result[r]
                d == row.Description
            IN  /\ {d[i][1] : i \in DOMAIN d} = AllItems
                /\ Len(d) = Cardinality(AllItems)
                /\ \A i \in DOMAIN d :
                     d[i][2] = OrderSum(Len(result_dicts), row.Port,
                                        row.VendorName, {d[i][1]})
                /\ SumCounts(d) = row.totalOrderCount

\* C20's case: a row emitted for a vendor that has no rows for one of the
\* items, its breakdown listing that item with count 0.
C20_Witness ==
    /\ RankDone
    /\ \E r \in DOMAIN final_result :
         LET d == final_result[r].Description
         IN  /\ Len(d) >= 2
             /\ \E i \in DOMAIN d : d[i][2] = 0
             /\ final_result[r].totalOrderCount > 0

\* The request asks for vendors: names for both item and port, or ids for
\* both.
AsksVendors ==
    \/ ~NoneOrEmpty(userinput.item_name) /\ ~NoneOrEmpty(userinput.port_name)
    \/ ~NoneOrEmpty(userinput.item_id) /\ ~NoneOrEmpty(userinput.port_id)

\* C21: a request on the vendor path is answered 200, never 500; when
\* fetch_top_vendors gave the empty list, also after db.run raised, the body
\* is the message "No top vendors found for the specified criteria." with
\* an empty top_vendors; when it gave rows, the body has the empty string
\* as response and exactly those rows as top_vendors.
C21_VendorPathResponse ==
    hq = "responded" /\ AsksVendors =>
        /\ fpc = "done"
        /\ response_data.status = 200
        /\ DOMAIN response_data.body = {"response", "top_vendors"}
        /\ response_data.body.top_vendors = final_result
        /\ response_data.body.response
              = IF final_result = <<>>
                  THEN "No top vendors found for the specified criteria."
                  ELSE ""

\* C21's case: db.run raised at the aggregation query, and the request has
\* been answered.
C21_Witness ==
    /\ hq = "responded"
    /\ AsksVendors
    /\ logged = "db.run"
    /\ Issued("aggregation")
    /\ response_data.status = 200

\* C22: no stop request comes from the query path: only a worker running
\* the scheduler's stop job is ever at the stop request or has one in its
\* log, and the warehouse goes from another state to STOPPED only in a step
\* of such a worker.
C22_StopOnlyFromStopJob ==
    /\ [](\A w \in Workers :
            \/ op[w] = "stop_job"
            \/ /\ pc[w] \notin {"stop_post", "stop_clear"}
               /\ \A i \in DOMAIN log[w] : log[w][i] \notin {"stop_ok", "stop_fail"})
    /\ [][wh # "STOPPED" /\ wh' = "STOPPED"
            => \E w \in Workers :
                  /\ op[w] = "stop_job"
                  /\ pc[w] = "stop_post" /\ pc'[w] = "stop_clear"]_vars

\* C22's case: the stop job has stopped a running warehouse while a request
\* holding the handle is about to run its query.
C22_Witness ==
    \E w1, w2 \in Workers :
        /\ op[w1] = "stop_job" /\ log[w1] = <<"stop_ok">>
        /\ wh = "STOPPED"
        /\ op[w2] = "handle_query" /\ pc[w2] = "fetch"
        /\ "poll_true" \in Range(log[w2])

\* C23: when the status check of a start_databricks_warehouse() call has
\* failed, the call goes on as for a warehouse that is not running: its
\* next step is the start request, which it issues whatever the state of
\* the warehouse.
C23_FailedCheckStillStarts ==
    /\ [](\A w \in Workers :
            log[w] # <<>> /\ log[w][Len(log[w])] = "poll_fail"
                => pc[w] \in {"sw_store", "sw_post"} /\ ~polled[w])
    /\ [][\A w \in Workers :
            pc[w] = "sw_store" /\ log[w][Len(log[w])] = "poll_fail"
                /\ pc'[w] # pc[w]
            => pc'[w] = "sw_post"]_vars
    /\ [](\A w \in Workers :
            \A i \in DOMAIN log[w] :
                log[w][i] = "poll_fail" /\ i < Len(log[w])
                    => log[w][i + 1] \in {"start_ok", "start_fail"})

\* C23's case: the status check failed while the warehouse was running, and
\* the start request has been issued all the same.
C23_Witness ==
    \E w \in Workers :
        /\ "poll_fail" \in Range(log[w])
        /\ "start_ok" \in Range(log[w])
        /\ wh = "RUNNING"
        /\ pc[w] = "sw_clear"

\* C24: a value in the run-state cache stays as it is until a cache_clear()
\* of a start or stop call empties the cache, whatever becomes of the
\* warehouse meanwhile; and an is_warehouse_running() call that finds a
\* value there answers with it and does not poll the status endpoint.
C24_CacheNeverRefreshed ==
    /\ [][cache # "empty" /\ cache' # cache
            => /\ cache' = "empty"
               /\ \E w \in Workers :
                    /\ pc[w] \in {"sw_clear", "stop_clear"}
                    /\ pc'[w] # pc[w]]_vars
    /\ [][\A w \in Workers :
            pc[w] = "sw_cache" /\ pc'[w] # pc[w] /\ cache # "empty"
            => /\ pc'[w] = IF cache = "true" THEN AfterStart(w) ELSE "sw_post"
               /\ cache' = cache]_vars

\* C24's case: the cache says not running while the warehouse is running,
\* and a call has answered from the cache.
C24_Witness ==
    \E w \in Workers :
        /\ cache = "false"
        /\ wh = "RUNNING"
        /\ log[w] # <<>> /\ log[w][Len(log[w])] = "hit_false"
        /\ pc[w] = "sw_post"

\* The logs of a start_databricks_warehouse() call that has returned.
StartReturned ==
    {<<"hit_true">>, <<"poll_true">>}
        \cup {<<e, "start_ok", "clear">> : e \in NotRunning}
        \cup {<<e, "start_fail">> : e \in NotRunning}

\* C25: every call of SQLDatabase.from_databricks is made by a worker that
\* holds the lock and, since it took the lock in this get_instance() call,
\* has made one start_databricks_warehouse() call, which has returned.
C25_StartPrecedesConstruction ==
    [][nConstruct' # nConstruct
         => \E w \in Workers :
               /\ pc[w] = "init" /\ pc'[w] # "init"
               /\ op[w] \in QueryOps
               /\ lock = w
               /\ log[w][1] = "acquire"
               /\ StartLog(w) \in StartReturned]_vars

\* C25's case: a call has taken the lock, found the warehouse stopped,
\* started it, and constructed the handle.
C25_Witness ==
    \E w \in Workers :
        /\ pc[w] = "ret"
        /\ log[w] = <<"acquire", "poll_false", "start_ok", "clear", "construct_ok">>

\* C26: a construction that raises makes its get_instance() call raise
\* RuntimeError and leaves _instance absent and the lock free; no call
\* returns an absent handle; as long as every attempt has raised, _instance
\* is absent, so that the next caller to take the lock makes an attempt of
\* its own; and the first attempt that succeeds is the last attempt made
\* and gives the handle every call returns from then on.
C26_ConstructionFailure ==
    /\ [][\A w \in Workers :
            pc[w] = "init" /\ pc'[w] # "init" /\ nFailed' # nFailed
            => /\ ret'[w] = Raised
               /\ pc'[w] = "idle"
               /\ instance = NoHandle /\ instance' = NoHandle
               /\ lock' = NoThread]_vars
    /\ [](\A w \in Workers :
            /\ pc[w] = "ret" => instance # NoHandle
            /\ pc[w] \in {"probe", "fetch"} => GotHandle(w)
            /\ GotHandle(w) => ret[w] = instance)
    /\ [](IF instance = NoHandle
            THEN nConstruct = nFailed
            ELSE nConstruct = nFailed + 1 /\ instance = nConstruct)
    /\ [][\A w \in Workers :
            pc[w] = "check2" /\ pc'[w] # "check2" /\ instance = NoHandle
            => pc'[w] = "sw_cache" /\ lock' = w]_vars

\* C26's case: one call has raised on its construction attempt, and a later
\* call has made its own, which succeeded, and returned that handle.
C26_Witness ==
    \E w1, w2 \in Workers :
        /\ w1 # w2
        /\ ret[w1] = Raised
        /\ nFailed = 1 /\ nConstruct = 2
        /\ instance = 2
        /\ ret[w2] = 2

\* C27: a stored handle is never replaced or cleared, whatever step is
\* taken (a probe or a query, failing or not, a start or a stop job), and
\* every return of get_instance() made once a handle is stored hands out
\* that handle, also when a probe or a query has failed on it.
C27_HandleNeverReplaced ==
    /\ [][instance # NoHandle => instance' = instance]_vars
    /\ [][\A w \in Workers :
            pc[w] = "ret" /\ pc'[w] # "ret"
            => /\ instance # NoHandle
               /\ ret'[w] = instance
               /\ ret'[w] = nFailed + 1]_vars
    /\ [](stale \cup broken \subseteq {instance})

\* C27's case: a probe or a query has failed on the stored handle, the
\* scheduler's stop job has had its stop request accepted, and a later
\* get_instance() call has returned the same handle.
C27_Witness ==
    \E w, v \in Workers :
        /\ pc[v] = "stop_clear"
        /\ pc[w] \in {"probe", "fetch"}
        /\ instance \in callStale[w] \cup callBroken[w]
        /\ ret[w] = instance

\* The steps of start_databricks_warehouse: the cache lookup, the status
\* poll and its storing, the start request and the cache_clear.
InStart(w) == pc[w] \in {"sw_cache", "sw_poll", "sw_store", "sw_post", "sw_clear"}

\* C28: a get_instance() call that finds a handle at its first test goes
\* straight to the return, having neither taken the lock nor looked up,
\* polled or started anything, and returns that handle; and whatever state
\* the warehouse is in, a get_instance() call is inside
\* start_databricks_warehouse only while no handle exists.
C28_FastPathDoesNothing ==
    /\ [][\A w \in Workers :
            pc[w] = "check1" /\ pc'[w] # "check1" /\ instance # NoHandle
            => /\ pc'[w] = "ret"
               /\ log'[w] = <<>>
               /\ UNCHANGED <<instance, lock, cache, wh, polled>>]_vars
    /\ [](\A w \in Workers :
            pc[w] = "ret" /\ log[w] = <<>> => lock # w /\ instance # NoHandle)
    /\ [][\A w \in Workers :
            pc[w] = "ret" /\ pc'[w] # "ret" /\ log[w] = <<>>
            => /\ ret'[w] = instance
               /\ UNCHANGED <<instance, lock, cache, wh, polled>>]_vars
    /\ [](\A w \in Workers :
            op[w] \in QueryOps /\ InStart(w) => instance = NoHandle /\ lock = w)

\* C28's case: the other worker has never run, so w's operations ran one
\* after another: a request that built the handle, a stop job whose request
\* was accepted (the only way to an empty cache with a stopped warehouse
\* once a handle exists), and now a get_instance() call that has returned
\* the handle with nothing in its log, the warehouse still stopped.
C28_Witness ==
    \E w, v \in Workers :
        /\ v # w
        /\ pc[v] = "idle" /\ op[v] = "handle_query" /\ ret[v] = NoHandle
        /\ calls = 3
        /\ wh = "STOPPED" /\ cache = "empty"
        /\ pc[w] \in {"probe", "fetch"}
        /\ log[w] = <<>>
        /\ ret[w] = instance
        /\ instance # NoHandle

\* Worker w's status check has failed and its value is about to be handed
\* to the cache.
FailedCheck(w) ==
    /\ pc[w] = "sw_store"
    /\ log[w] # <<>>
    /\ log[w][Len(log[w])] = "poll_fail"

\* While the cache holds False: a lookup answers False without a poll and
\* the start call goes on to its start request; the value stays until a
\* cache_clear, and a cache_clear only follows a request answered with 200.
CachedFalseStays ==
    /\ [][\A w \in Workers :
            pc[w] = "sw_cache" /\ pc'[w] # "sw_cache" /\ cache = "false"
            => /\ pc'[w] = "sw_post"
               /\ log'[w] = Append(log[w], "hit_false")
               /\ UNCHANGED <<cache, wh, polled>>]_vars
    /\ [][cache = "false" /\ cache' # "false"
            => /\ cache' = "empty"
               /\ \E w \in Workers :
                    /\ pc[w] \in {"sw_clear", "stop_clear"}
                    /\ pc'[w] # pc[w]
                    /\ log[w][Len(log[w])] \in {"start_ok", "stop_ok"}]_vars
    /\ [][\A w \in Workers :
            pc[w] = "sw_post" /\ pc'[w] # "sw_post"
            => \/ wh' = (IF wh = "STOPPED" THEN "STARTING" ELSE wh)
                    /\ pc'[w] = "sw_clear"
               \/ wh' = wh /\ pc'[w] = AfterStart(w)]_vars

\* C29 as stated: the False of a failed status check is in the cache once
\* the check has returned, and it stays there, answering later calls
\* without a poll and sending every start call on to a start request,
\* until a start or stop request answered with 200 clears the cache.
C29_FailedCheckCached ==
    /\ [][\A w \in Workers :
            FailedCheck(w) /\ pc'[w] # "sw_store" => cache' = "false"]_vars
    /\ CachedFalseStays

\* C29 amended: the False of a failed status check is stored unless another
\* call has stored its own result while the check was in flight, and then
\* the cache keeps that result; the caller goes on to its start request
\* either way. A stored False stays, answering later calls without a poll
\* and sending every start call on to a start request, until a start or
\* stop request answered with 200 clears the cache.
C29_FailedCheckCachedUnlessRaced ==
    /\ [][\A w \in Workers :
            FailedCheck(w) /\ pc'[w] # "sw_store"
            => /\ cache' = (IF cache = "empty" THEN "false" ELSE cache)
               /\ pc'[w] = "sw_post"]_vars
    /\ CachedFalseStays

\* C29's case: the warehouse is running and the cache holds a False that no
\* accepted start or stop predates, which only a failed check stores; a
\* later start call has been answered False from the cache and is at its
\* start request.
C29_Witness ==
    \E w \in Workers :
        /\ wh = "RUNNING"
        /\ cache = "false"
        /\ ~cacheStale
        /\ pc[w] = "sw_post"
        /\ log[w] # <<>>
        /\ log[w][Len(log[w])] = "hit_false"

\* The sum of TotalCount over the entries of one port.
RECURSIVE SumTotalCount(_)
SumTotalCount(vs) ==
    IF vs = <<>> THEN 0 ELSE Head(vs).TotalCount + SumTotalCount(Tail(vs))

\* The sum of TotalCount over all (port, vendor) aggregates.
RECURSIVE SumAggregates(_)
SumAggregates(pvd) ==
    IF pvd = <<>> THEN 0
    ELSE SumTotalCount(Head(pvd).vendors) + SumAggregates(Tail(pvd))

\* The sum of OrderCount over the first n rows of the answer.
RECURSIVE SumOrderCount(_)
SumOrderCount(n) ==
    IF n = 0 THEN 0 ELSE SumOrderCount(n - 1) + result_dicts[n]["OrderCount"]

\* The sum of totalOrderCount over the rows emitted.
RECURSIVE SumEmitted(_)
SumEmitted(rows) ==
    IF rows = <<>> THEN 0
    ELSE Head(rows).totalOrderCount + SumEmitted(Tail(rows))

\* C30: the fold conserves counts: after every row folded, the TotalCount
\* of the aggregates add up to the OrderCount of the rows folded so far, so
\* to that of all rows once the fold is over; and the totalOrderCount of the
\* rows emitted add up to no more than that.
C30_FoldConservesCounts ==
    /\ (\E i \in DOMAIN queries : queries[i].kind = "aggregation")
         => SumAggregates(port_vendor_data) = SumOrderCount(nFolded)
    /\ FoldDone => nFolded = Len(result_dicts)
    /\ RankDone => SumEmitted(final_result) <= SumOrderCount(Len(result_dicts))

\* C30's case: three rows of three vendors of one port, the third vendor
\* cut by the top two, so that the rows emitted carry less than the rows
\* counted, and the aggregates carry all of it.
C30_Witness ==
    /\ RankDone
    /\ Len(result_dicts) = 3
    /\ Cardinality(Aggregates) = 3
    /\ Len(final_result) = 2
    /\ SumAggregates(port_vendor_data) = SumOrderCount(3)
    /\ SumEmitted(final_result) < SumOrderCount(3)

\* The index of the first aggregation row of the port and vendor.
FirstRow(port, vendor) ==
    LET of == {i \in DOMAIN result_dicts :
                  /\ result_dicts[i]["SchdDeliveryPort"] = port
                  /\ result_dicts[i]["VendorName"] = vendor}
    IN  CHOOSE i \in of : \A j \in of : i <= j

\* Vendor u of the port ranks before vendor v: a larger total, or the same
\* total and an earlier first row.
RanksBefore(port, u, v) ==
    LET tu == OrderSum(Len(result_dicts), port, u, AllItems)
        tv == OrderSum(Len(result_dicts), port, v, AllItems)
    IN  tu > tv \/ (tu = tv /\ FirstRow(port, u) < FirstRow(port, v))

\* C31: the rows emitted for a port are in ranking order, vendors of equal
\* total in the order of their first rows, and a vendor of the port that
\* is left out ranks behind every emitted one: among tied vendors the cut
\* keeps the ones whose first row comes earlier in the query result.
C31_TiesKeepRowOrder ==
    RankDone =>
        \A port \in PortsOfRows :
            LET e == Emitted(port)
                names == {e[i].VendorName : i \in DOMAIN e}
            IN  /\ \A i, j \in DOMAIN e :
                     i < j => RanksBefore(port, e[i].VendorName, e[j].VendorName)
                /\ \A v \in VendorsAt(port) \ names : \A i \in DOMAIN e :
                     RanksBefore(port, e[i].VendorName, v)

\* C31's case: three vendors of one port, the last two of the ranking tied;
\* the tied vendor emitted is the one whose first row is earlier, and its
\* first row is not the first row of the result.
C31_Witness ==
    /\ RankDone
    /\ \E port \in PortsOfRows :
         LET e == Emitted(port)
         IN  /\ Cardinality(VendorsAt(port)) = 3
             /\ Len(e) = 2
             /\ e[1].totalOrderCount > e[2].totalOrderCount
             /\ \E v \in VendorsAt(port) \ {e[1].VendorName, e[2].VendorName} :
                  /\ OrderSum(Len(result_dicts), port, v, AllItems)
                        = e[2].totalOrderCount
                  /\ FirstRow(port, e[2].VendorName) < FirstRow(port, v)
                  /\ FirstRow(port, e[1].VendorName) > FirstRow(port, v)

\* The rows of the port and vendor name among the first n of the answer.
RowsOf(n, port, vendor) ==
    {i \in 1..n : /\ result_dicts[i]["SchdDeliveryPort"] = port
                  /\ result_dicts[i]["VendorName"] = vendor}

\* The first vendor code that is not null among those rows, null when
\* there is none.
FirstCode(n, port, vendor) ==
    LET coded == {i \in RowsOf(n, port, vendor) :
                     result_dicts[i]["VendorCode"] # NoCode}
    IN  IF coded = {} THEN NoCode
        ELSE result_dicts[CHOOSE i \in coded : \A j \in coded : i <= j]["VendorCode"]

\* C32: after every row folded there is exactly one aggregate for every
\* (port, vendor name) of the rows folded so far, whatever their vendor
\* codes, holding one item entry per row folded into it; its VendorID is
\* the first vendor code that is not null among those rows, and once set a
\* later row does not change it.
C32_KeyedByPortAndName ==
    /\ []((\E q \in DOMAIN queries : queries[q].kind = "aggregation") =>
         /\ \A i \in 1..nFolded :
              \E a \in Aggregates :
                 /\ a[1] = result_dicts[i]["SchdDeliveryPort"]
                 /\ a[2].key = result_dicts[i]["VendorName"]
         /\ \A a, b \in Aggregates : a[1] = b[1] /\ a[2].key = b[2].key => a = b
         /\ \A a \in Aggregates :
              /\ Len(a[2].Items) = Cardinality(RowsOf(nFolded, a[1], a[2].key))
              /\ a[2].VendorID = FirstCode(nFolded, a[1], a[2].key))
    /\ [][\A a \in Aggregates : a[2].VendorID # NoCode =>
            \E b \in Aggregates' :
               /\ b[1] = a[1] /\ b[2].key = a[2].key
               /\ b[2].VendorID = a[2].VendorID]_vars

\* C32's case: two rows of the same port and vendor name with different
\* vendor codes are in one aggregate, whose VendorID is the code of the
\* earlier row.
C32_Witness ==
    /\ FoldDone
    /\ \E a \in Aggregates : \E i, j \in RowsOf(nFolded, a[1], a[2].key) :
          /\ i < j
          /\ result_dicts[i]["VendorCode"] # NoCode
          /\ result_dicts[j]["VendorCode"] # NoCode
          /\ result_dicts[i]["VendorCode"] # result_dicts[j]["VendorCode"]
          /\ a[2].VendorID = result_dicts[i]["VendorCode"]
          /\ Len(a[2].Items) = 2

\* The aggregation queries the call has issued.
AggQueries == {q \in DOMAIN queries : queries[q].kind = "aggregation"}

\* C33: when the request carries a non-empty item id list, the item names
\* of the aggregation query are the names the lookup answer gives for those
\* ids, lower-cased, whatever item names the request carries, a lookup for
\* exactly those ids has gone before, and with no id resolved there is no
\* aggregation query at all; the same for port ids and port names.
C33_IdsTakePrecedence ==
    \A q \in AggQueries :
        /\ queries[q].items # <<>> /\ queries[q].ports # <<>>
        /\ Truthy(userinput.item_id) =>
             /\ queries[q].items
                   = LowerAll(Resolved(userinput.item_id.val, item_results))
             /\ \E p \in 1..(q - 1) :
                   queries[p] = Query("item_lookup", userinput.item_id.val, <<>>, <<>>)
        /\ Truthy(userinput.port_id) =>
             /\ queries[q].ports
                   = LowerAll(Resolved(userinput.port_id.val, port_results))
             /\ \E p \in 1..(q - 1) :
                   queries[p] = Query("port_lookup", userinput.port_id.val, <<>>, <<>>)

\* C33's case: the request carries item names and item ids that resolve to
\* other names, and port ids; the aggregation ran on the resolved names and
\* found vendors.
C33_Witness ==
    /\ hq = "responded"
    /\ Truthy(userinput.item_name)
    /\ Truthy(userinput.item_id)
    /\ Truthy(userinput.port_id)
    /\ \E q \in AggQueries :
         /\ queries[q].items # LowerAll(StripAll(userinput.item_name.val))
         /\ Range(queries[q].items)
               \cap Range(LowerAll(StripAll(userinput.item_name.val))) = {}
    /\ final_result # <<>>

\* The request carries a name for one of item and port and an id for the
\* other, and nothing else of the four.
MixedRequest ==
    \/ /\ ~NoneOrEmpty(userinput.item_name) /\ ~NoneOrEmpty(userinput.port_id)
       /\ NoneOrEmpty(userinput.item_id) /\ NoneOrEmpty(userinput.port_name)
    \/ /\ ~NoneOrEmpty(userinput.item_id) /\ ~NoneOrEmpty(userinput.port_name)
       /\ NoneOrEmpty(userinput.item_name) /\ NoneOrEmpty(userinput.port_id)

\* C34: the handler leaves its routing for the vendor path exactly when the
\* request asks for vendors (names for both item and port, or ids for
\* both), for the agent or the fixed message otherwise; the path taken
\* ends with the response and no other path is entered, so that the agent
\* runs only for requests that do not ask for vendors, whatever their
\* user_query; fetch_top_vendors runs and issues SQL only on the vendor
\* path, and a request with a name for one dimension and only an id for
\* the other is not on it.
C34_OnePath ==
    /\ [][hq = "route" /\ hq' # "route"
            => /\ (hq' = "vendor") = AsksVendors
               /\ hq' \in {"vendor", "agent", "responded"}
               /\ hq' = "agent" => HasQuery(userinput)
               /\ hq' = "responded" =>
                    ~HasQuery(userinput) /\ response_data' = Ok(ProvideBoth)]_vars
    /\ [][(hq = "vendor" \/ hq = "agent") /\ hq' # hq => hq' = "responded"]_vars
    /\ [][hq = "responded" => hq' = "responded"]_vars
    /\ [](hq = "agent" => ~AsksVendors)
    /\ [](hq = "vendor" => AsksVendors)
    /\ [](AsksVendors /\ hq = "responded" =>
            /\ fpc = "done"
            /\ response_data.status = 200 =>
                 "top_vendors" \in DOMAIN response_data.body
                    /\ response_data.body.response # "<agent output>")
    /\ [](~AsksVendors => fpc = "off" /\ queries = <<>>)
    /\ [](MixedRequest => ~AsksVendors)

\* C34's case: a request that asks for vendors and carries a user_query
\* too has been answered with the vendors found, the agent left out.
C34_Witness ==
    /\ hq = "responded"
    /\ AsksVendors
    /\ HasQuery(userinput)
    /\ final_result # <<>>
    /\ response_data = Ok([response |-> "", top_vendors |-> final_result])

====
